---- MODULE Spec2Model ----
(***************************************************************************)
(* Room / game coordinator of the Wipe server: the Othello board engine    *)
(* (src/lib/othello.ts), the minimax opponent (src/server/ai.ts), the game *)
(* routes and the AI step loop (src/server/game.ts), the room routes       *)
(* (src/server/rooms.ts), the admission middleware (src/middleware.ts),    *)
(* the request authentication (src/server/auth.ts) and the chat post       *)
(* (src/server/messages.ts), over one shared key-value store.              *)
(*                                                                         *)
(* Every read and every write of a key is a separate step of a request, so *)
(* that the requests of several clients and the AI step loop interleave    *)
(* at the store calls. The ttl / expire / persist calls that follow a write *)
(* belong to the step of that write. The countdowns of the room's keys run *)
(* in steps of TickSeconds between two requests, where that step is part   *)
(* of the specification; the lock key of the AI step loop expires at any   *)
(* time. The rooms POST /room/match hands out are kept beside the room of   *)
(* the other routes: the list queue:rooms and the meta hashes of the rooms  *)
(* it has made.                                                            *)
(***************************************************************************)
EXTENDS Integers, Sequences, FiniteSets, TLC

(***************************************************************************)
(* Board engine: src/lib/othello.ts                                        *)
(***************************************************************************)
SIZE == 8

Cells == 0 .. (SIZE * SIZE - 1)

DIRS ==
    << <<-1, -1>>, <<0, -1>>, <<1, -1>>, <<-1, 0>>,
       <<1, 0>>, <<-1, 1>>, <<0, 1>>, <<1, 1>> >>

idx(x, y) == y * SIZE + x

inBounds(x, y) == x >= 0 /\ x < SIZE /\ y >= 0 /\ y < SIZE

opponent(p) == IF p = 1 THEN 2 ELSE 1

\* createInitialBoard without the four discs of the centre.
createInitialBoard_NoCentre == [i \in Cells |-> 0]

createInitialBoard ==
    [i \in Cells |->
        IF i = idx(3, 3) \/ i = idx(4, 4) THEN 2
        ELSE IF i = idx(3, 4) \/ i = idx(4, 3) THEN 1
        ELSE 0]

countDiscs(board) ==
    [black |-> Cardinality({i \in Cells : board[i] = 1}),
     white |-> Cardinality({i \in Cells : board[i] = 2})]

\* The inner while loop of getFlips for one direction: the opponent discs
\* collected so far are returned when the walk ends on a disc of player,
\* nothing when it ends on an empty cell or leaves the board.
RECURSIVE walkLine(_, _, _, _, _, _, _)
walkLine(board, cx, cy, dx, dy, player, line) ==
    IF ~inBounds(cx, cy) THEN {}
    ELSE LET v == board[idx(cx, cy)] IN
         IF v = opponent(player)
         THEN walkLine(board, cx + dx, cy + dy, dx, dy, player, line \cup {idx(cx, cy)})
         ELSE IF v = player THEN line
         ELSE {}

getFlips(board, x, y, player) ==
    IF ~inBounds(x, y) THEN {}
    ELSE IF board[idx(x, y)] # 0 THEN {}
    ELSE UNION {walkLine(board, x + DIRS[d][1], y + DIRS[d][2],
                         DIRS[d][1], DIRS[d][2], player, {}) : d \in 1 .. Len(DIRS)}

isLegalMove(board, x, y, player) == getFlips(board, x, y, player) # {}

\* The cells getLegalMoves pushes, as board indexes.
legalCells(board, player) ==
    {i \in Cells : isLegalMove(board, i % SIZE, i \div SIZE, player)}

\* A set of board indexes as the list of moves in scan order (y outer, x inner).
RECURSIVE scanOrder(_)
scanOrder(S) ==
    IF S = {} THEN << >>
    ELSE LET m == CHOOSE i \in S : \A j \in S : i <= j
         IN  << <<m % SIZE, m \div SIZE>> >> \o scanOrder(S \ {m})

getLegalMoves(board, player) == scanOrder(legalCells(board, player))

hasAnyLegalMove(board, player) ==
    \E i \in Cells : isLegalMove(board, i % SIZE, i \div SIZE, player)

\* applyMove placing the disc without turning the discs of getFlips.
applyMove_PlacesOnly(board, x, y, player) ==
    LET flips == getFlips(board, x, y, player) IN
    IF flips = {} THEN board
    ELSE [i \in Cells |-> IF i = idx(x, y) THEN player ELSE board[i]]

applyMove(board, x, y, player) ==
    LET flips == getFlips(board, x, y, player) IN
    IF flips = {} THEN board
    ELSE [i \in Cells |->
             IF i = idx(x, y) \/ i \in flips THEN player ELSE board[i]]

isBoardFull(board) == \A i \in Cells : board[i] # 0

\* computeWinner with a tie given to black.
computeWinner_TieToBlack(board) ==
    LET c == countDiscs(board) IN
    IF c.black >= c.white THEN 1 ELSE 2

computeWinner(board) ==
    LET c == countDiscs(board) IN
    IF c.black > c.white THEN 1
    ELSE IF c.white > c.black THEN 2
    ELSE 0

(***************************************************************************)
(* The minimax opponent: src/server/ai.ts                                  *)
(***************************************************************************)
CORNERS == {0, 7, 56, 63}

X_SQUARES == {9, 14, 49, 54}

C_SQUARES == {1, 6, 8, 15, 48, 55, 57, 62}

\* Stands for Infinity: larger than the magnitude of every evalBoard score.
Infinity == 1000000

\* Sum over a set of cells of +1 for a disc of a and -1 for a disc of b.
occupancy(board, S, a, b) ==
    Cardinality({i \in S : board[i] = a}) - Cardinality({i \in S : board[i] = b})

evalBoard(board, me) ==
    LET opp == opponent(me)
        c == countDiscs(board)
        discDiff == IF me = 1 THEN c.black - c.white ELSE c.white - c.black
        mobility == Cardinality(legalCells(board, me)) - Cardinality(legalCells(board, opp))
        cornerScore == occupancy(board, CORNERS, me, opp)
        danger == occupancy(board, X_SQUARES, opp, me) + occupancy(board, C_SQUARES, opp, me)
        phase == c.black + c.white
        wDisc == IF phase < 44 THEN 1 ELSE 3
        wMob == IF phase < 44 THEN 8 ELSE 3
    IN  60 * cornerScore + wMob * mobility + wDisc * discDiff + 12 * danger

\* minimax and the loop over the moves of one node (alpha-beta), which call
\* each other. searchMoves carries the loop's best, alpha and beta; k is the
\* position of the next move of moves to try.
RECURSIVE minimax(_, _, _, _, _, _)
RECURSIVE searchMoves(_, _, _, _, _, _, _, _, _)
minimax(board, toMove, me, depth, alpha, beta) ==
    LET opp == opponent(toMove) IN
    IF ~hasAnyLegalMove(board, me) /\ ~hasAnyLegalMove(board, opponent(me))
    THEN evalBoard(board, me)
    ELSE IF depth <= 0 THEN evalBoard(board, me)
    ELSE LET moves == getLegalMoves(board, toMove) IN
         IF Len(moves) = 0 THEN minimax(board, opp, me, depth - 1, alpha, beta)
         ELSE searchMoves(board, toMove, me, depth, alpha, beta, moves, 1,
                          IF toMove = me THEN -Infinity ELSE Infinity)

searchMoves(board, toMove, me, depth, alpha, beta, moves, k, best) ==
    IF k > Len(moves) THEN best
    ELSE LET next == applyMove(board, moves[k][1], moves[k][2], toMove)
             v == minimax(next, opponent(toMove), me, depth - 1, alpha, beta)
         IN  IF toMove = me
             THEN LET b2 == IF v > best THEN v ELSE best
                      a2 == IF v > alpha THEN v ELSE alpha
                  IN  IF beta <= a2 THEN b2
                      ELSE searchMoves(board, toMove, me, depth, a2, beta, moves, k + 1, b2)
             ELSE LET b2 == IF v < best THEN v ELSE best
                      be2 == IF v < beta THEN v ELSE beta
                  IN  IF be2 <= alpha THEN b2
                      ELSE searchMoves(board, toMove, me, depth, alpha, be2, moves, k + 1, b2)

depthByLevel == <<0, 1, 3, 5>>

\* The loop of chooseAiMove over the legal moves: the first move with the
\* strictly greatest score is kept.
RECURSIVE bestMove(_, _, _, _, _, _, _)
bestMove(board, ai, depth, moves, k, bestK, bestScore) ==
    IF k > Len(moves) THEN moves[bestK]
    ELSE LET next == applyMove(board, moves[k][1], moves[k][2], ai)
             s == minimax(next, opponent(ai), ai, depth - 1, -Infinity, Infinity)
         IN  IF bestK = 0 \/ s > bestScore
             THEN bestMove(board, ai, depth, moves, k + 1, k, s)
             ELSE bestMove(board, ai, depth, moves, k + 1, bestK, bestScore)

\* chooseAiMove for the levels aiLevelToInt yields (1, 2, 3); << >> is null.
chooseAiMove(board, ai, level) ==
    LET moves == getLegalMoves(board, ai) IN
    IF Len(moves) = 0 THEN << >>
    ELSE bestMove(board, ai, depthByLevel[level + 1], moves, 1, 0, 0)

aiLevelToInt(level) == IF level = "easy" THEN 1 ELSE IF level = "hard" THEN 3 ELSE 2

(***************************************************************************)
(* Values of the store and of the game record: src/server/game.ts,         *)
(* src/server/auth.ts                                                      *)
(***************************************************************************)
\* The sentinel token of the AI opponent (keys.ts).
AI_TOKEN == "AI"

\* null of GameState.turn, GameState.winner, a token and lastMove.
NoTurn == 0

NoWinner == -1

NoToken == ""

NoMove == << >>

\* An invite code is the sequence of its characters; null, a field the hash
\* does not hold and the empty string are all the empty sequence.
NoCode == << >>

\* redis.get(gameKey) when the key does not exist.
NoGame == [status |-> "absent"]

\* keys.ts: the countdown of a playable room and of a room that waits for its
\* players, in seconds.
ROOM_TTL_SECONDS == 600

WAITING_ROOM_TTL_SECONDS == 3600

\* RoomMeta.ttlSeconds: null, and a hash that has no such field.
TtlNull == 0

TtlUndefined == -1

\* redis.ttl of a key that does not exist and of a key that has no expiry.
NoKeyTtl == -2

NoExpiry == -1

\* redis.hgetall(metaKey) when the key does not exist; a field that a hash
\* does not hold reads as "" (undefined), FALSE or the empty list.
NoMeta ==
    [present |-> FALSE, players |-> << >>, spectators |-> << >>, mode |-> "",
     pve |-> FALSE, inviteCode |-> NoCode, spectatorCode |-> NoCode,
     allowSpectators |-> FALSE, spectatorCanViewChat |-> FALSE,
     spectatorCanSendChat |-> FALSE,
     handicap |-> [black |-> {}, white |-> {}],
     aiLevel |-> "", humanPlays |-> "", humanPlaysResolved |-> "",
     ttlSeconds |-> TtlUndefined]

\* redis.expire and redis.persist on the ttl of a key: a key that does not
\* exist stays absent.
expire(t, seconds) == IF t = NoKeyTtl THEN NoKeyTtl ELSE seconds

persist(t) == IF t = NoKeyTtl THEN NoKeyTtl ELSE NoExpiry

\* redis.hset and redis.rpush create a missing key without expiry and leave
\* the expiry of an existing one.
touched(t) == IF t = NoKeyTtl THEN NoExpiry ELSE t

\* remainingTTLSeconds: null (TtlNull) when the meta key has no expiry.
remainingTTLSeconds(t) ==
    IF t = NoExpiry THEN TtlNull
    ELSE IF t > 0 THEN t
    ELSE ROOM_TTL_SECONDS

\* if (rem === null) redis.persist(key) else redis.expire(key, rem).
applyRemaining(t, rem) == IF rem = TtlNull THEN persist(t) ELSE expire(t, rem)

\* persistState, and the write of ensureGame: redis.set (which drops the
\* expiry of the key) and then the remaining TTL of the meta key.
persistTtl(t) == [t EXCEPT !.game = applyRemaining(NoExpiry, remainingTTLSeconds(t.meta))]

\* getConfiguredTtlSeconds giving the default for every countdown.
getConfiguredTtlSeconds_AlwaysDefault(m) ==
    IF m.ttlSeconds = TtlNull THEN TtlNull ELSE ROOM_TTL_SECONDS

\* middleware.ts getConfiguredTtlSeconds.
getConfiguredTtlSeconds(m) ==
    IF m.ttlSeconds = TtlNull THEN TtlNull
    ELSE IF m.ttlSeconds > 0 THEN m.ttlSeconds
    ELSE ROOM_TTL_SECONDS

\* redis.hset(metaKey, {players, spectators}) and
\* redis.hset(metaKey, {humanPlaysResolved}): a missing hash is created.
hsetLists(m, players, spectators) ==
    [m EXCEPT !.present = TRUE, !.players = players, !.spectators = spectators]

hsetResolved(m, color) ==
    [m EXCEPT !.present = TRUE, !.humanPlaysResolved = color]

GameRecord(board, status, turn, blackToken, whiteToken) ==
    [board |-> board, status |-> status, turn |-> turn, passStreak |-> 0,
     winner |-> NoWinner, blackToken |-> blackToken, whiteToken |-> whiteToken,
     lastMove |-> NoMove]

sanitizeHandicap(m) ==
    [black |-> m.handicap.black \cap Cells,
     white |-> (m.handicap.white \cap Cells) \ m.handicap.black]

\* applyHandicap stamping the handicap on occupied cells too.
applyHandicap_OnOccupied(board, handicap) ==
    [i \in Cells |->
        IF i \in handicap.black THEN 1
        ELSE IF i \in handicap.white THEN 2
        ELSE board[i]]

applyHandicap(board, handicap) ==
    [i \in Cells |->
        IF board[i] # 0 THEN board[i]
        ELSE IF i \in handicap.black THEN 1
        ELSE IF i \in handicap.white THEN 2
        ELSE 0]

\* One pass of the loop of fillSlotsFromPlayers.
fillSlot(state, token) ==
    IF token = state.blackToken \/ token = state.whiteToken THEN state
    ELSE IF state.blackToken = NoToken THEN [state EXCEPT !.blackToken = token]
    ELSE IF state.whiteToken = NoToken THEN [state EXCEPT !.whiteToken = token]
    ELSE state

fillSlotsFromPlayers(state, players) ==
    LET s1 == IF Len(players) >= 1 THEN fillSlot(state, players[1]) ELSE state
    IN  IF Len(players) >= 2 THEN fillSlot(s1, players[2]) ELSE s1

\* resolveHumanColor: the color, and whether it is written to the meta hash.
\* flip is the coin flip.
resolveHumanColor(m, flip) ==
    IF m.humanPlaysResolved \in {"black", "white"}
    THEN [color |-> m.humanPlaysResolved, hset |-> FALSE]
    ELSE [color |-> IF m.humanPlays = "black" THEN "black"
                    ELSE IF m.humanPlays = "white" THEN "white"
                    ELSE IF flip THEN "black" ELSE "white",
          hset |-> TRUE]

assignAiOpponent(state, humanToken, humanColor) ==
    IF humanColor = "black"
    THEN [state EXCEPT !.blackToken = humanToken, !.whiteToken = AI_TOKEN]
    ELSE [state EXCEPT !.blackToken = AI_TOKEN, !.whiteToken = humanToken]

\* ensureGame leaving a stored record as it is, but for its empty slots.
ensureGame_KeepsStoredWaiting(stored, players, m, flip) ==
    LET pve == m.pve
        board == applyHandicap(createInitialBoard, sanitizeHandicap(m))
        only == IF Len(players) >= 1 THEN players[1] ELSE NoToken
        rc == resolveHumanColor(m, flip)
        plain(st, dirty, startedNow) ==
            [state |-> st, dirty |-> dirty, startedNow |-> startedNow,
             hset |-> FALSE, color |-> ""]
        withAi(st) ==
            [state |-> assignAiOpponent(st, only, rc.color), dirty |-> TRUE,
             startedNow |-> TRUE, hset |-> rc.hset, color |-> rc.color]
    IN  IF stored = NoGame
        THEN IF pve
             THEN IF only # NoToken
                  THEN withAi(GameRecord(board, "playing", 1, NoToken, NoToken))
                  ELSE plain(GameRecord(board, "waiting", NoTurn, NoToken, NoToken),
                             TRUE, FALSE)
             ELSE IF Len(players) >= 2
                  THEN plain(GameRecord(board, "playing", 1,
                                        IF flip THEN players[1] ELSE players[2],
                                        IF flip THEN players[2] ELSE players[1]),
                             TRUE, TRUE)
                  ELSE plain(GameRecord(board, "waiting", NoTurn, NoToken, NoToken),
                             TRUE, FALSE)
        ELSE plain(fillSlotsFromPlayers(stored, players), FALSE, FALSE)

\* ensureGame from the value redis.get returned (stored) to its first store
\* write: the state in memory, dirty, startedNow and, when assignAiOpponent
\* runs, the color resolveHumanColor gives and whether it writes it.
ensureGame(stored, players, m, flip) ==
    LET pve == m.pve
        board == applyHandicap(createInitialBoard, sanitizeHandicap(m))
        only == IF Len(players) >= 1 THEN players[1] ELSE NoToken
        rc == resolveHumanColor(m, flip)
        plain(st, dirty, startedNow) ==
            [state |-> st, dirty |-> dirty, startedNow |-> startedNow,
             hset |-> FALSE, color |-> ""]
        withAi(st) ==
            [state |-> assignAiOpponent(st, only, rc.color), dirty |-> TRUE,
             startedNow |-> TRUE, hset |-> rc.hset, color |-> rc.color]
    IN  IF stored = NoGame
        THEN IF pve
             THEN IF only # NoToken
                  THEN withAi(GameRecord(board, "playing", 1, NoToken, NoToken))
                  ELSE plain(GameRecord(board, "waiting", NoTurn, NoToken, NoToken),
                             TRUE, FALSE)
             ELSE IF Len(players) >= 2
                  THEN plain(GameRecord(board, "playing", 1,
                                        IF flip THEN players[1] ELSE players[2],
                                        IF flip THEN players[2] ELSE players[1]),
                             TRUE, TRUE)
                  ELSE plain(GameRecord(board, "waiting", NoTurn, NoToken, NoToken),
                             TRUE, FALSE)
        ELSE LET filled == fillSlotsFromPlayers(stored, players)
                 started == [filled EXCEPT !.status = "playing", !.turn = 1,
                                           !.passStreak = 0, !.winner = NoWinner]
             IN  IF pve
                 THEN IF only # NoToken /\ filled.status = "waiting"
                      THEN withAi(started)
                      ELSE plain(filled, FALSE, FALSE)
                 ELSE IF Len(players) >= 2 /\ filled.status = "waiting"
                      THEN plain(started, TRUE, TRUE)
                      ELSE plain(filled, FALSE, FALSE)

\* publicGameState handing out the two tokens as well.
publicGameState_WithTokens(state) ==
    [board |-> state.board, status |-> state.status, turn |-> state.turn,
     passStreak |-> state.passStreak, winner |-> state.winner,
     blackCount |-> countDiscs(state.board).black,
     whiteCount |-> countDiscs(state.board).white,
     lastMove |-> state.lastMove,
     blackToken |-> state.blackToken, whiteToken |-> state.whiteToken]

\* publicGameState: the body of GET /game and the payload of game.state
\* (roomId and updatedAt, which the game record of this model does not
\* hold, are copied as well).
publicGameState(state) ==
    [board |-> state.board, status |-> state.status, turn |-> state.turn,
     passStreak |-> state.passStreak, winner |-> state.winner,
     blackCount |-> countDiscs(state.board).black,
     whiteCount |-> countDiscs(state.board).white,
     lastMove |-> state.lastMove]

mePlayerFromState(state, token) ==
    IF state.blackToken # NoToken /\ token = state.blackToken THEN 1
    ELSE IF state.whiteToken # NoToken /\ token = state.whiteToken THEN 2
    ELSE 0

\* isAiTurn without the look at who holds the color to move.
isAiTurn_AnyTurn(state, m) ==
    /\ m.pve
    /\ state.status = "playing" /\ state.turn # NoTurn

isAiTurn(state, m) ==
    /\ m.pve
    /\ state.status = "playing" /\ state.turn # NoTurn
    /\ \/ state.turn = 1 /\ state.blackToken = AI_TOKEN
       \/ state.turn = 2 /\ state.whiteToken = AI_TOKEN

\* finishIfNeeded with only its full-board branch.
finishIfNeeded_FullBoardOnly(state) ==
    IF isBoardFull(state.board)
    THEN [state EXCEPT !.status = "finished", !.turn = NoTurn,
                       !.winner = computeWinner(state.board)]
    ELSE state

finishIfNeeded(state) ==
    IF ~hasAnyLegalMove(state.board, 1) /\ ~hasAnyLegalMove(state.board, 2)
    THEN [state EXCEPT !.status = "finished", !.turn = NoTurn,
                       !.winner = computeWinner(state.board)]
    ELSE IF isBoardFull(state.board)
    THEN [state EXCEPT !.status = "finished", !.turn = NoTurn,
                       !.winner = computeWinner(state.board)]
    ELSE state

\* moveTransition without the reset of the pass counter.
moveTransition_KeepsPassStreak(state, x, y, me) ==
    finishIfNeeded([state EXCEPT !.board = applyMove(state.board, x, y, me),
                                 !.lastMove = <<x, y, me>>,
                                 !.turn = opponent(me)])

\* The state a move of player me at (x, y) builds: POST /move after its
\* checks, and the move branch of aiStepLoop.
moveTransition(state, x, y, me) ==
    finishIfNeeded([state EXCEPT !.board = applyMove(state.board, x, y, me),
                                 !.lastMove = <<x, y, me>>,
                                 !.passStreak = 0,
                                 !.turn = opponent(me)])

\* passTransition without the call of finishIfNeeded after a first pass.
passTransition_NoFinishCheck(state, me) ==
    LET passed == [state EXCEPT !.turn = opponent(me),
                                !.passStreak = state.passStreak + 1]
    IN  IF passed.passStreak >= 2
        THEN [passed EXCEPT !.status = "finished", !.turn = NoTurn,
                            !.winner = computeWinner(passed.board)]
        ELSE passed

\* The state a pass of player me builds: POST /pass after its checks, and
\* the pass branch of aiStepLoop.
passTransition(state, me) ==
    LET passed == [state EXCEPT !.turn = opponent(me),
                                !.passStreak = state.passStreak + 1]
    IN  IF passed.passStreak >= 2
        THEN [passed EXCEPT !.status = "finished", !.turn = NoTurn,
                            !.winner = computeWinner(passed.board)]
        ELSE finishIfNeeded(passed)

\* The checks of POST /move without the check of the turn.
moveCheck_SkipsTurn(state, token, x, y) ==
    LET me == mePlayerFromState(state, token) IN
    IF state.status # "playing" \/ state.turn = NoTurn THEN "Game not started"
    ELSE IF me = 0 THEN "Not a player"
    ELSE IF ~isLegalMove(state.board, x, y, me) THEN "Illegal move"
    ELSE "ok"

\* The checks of POST /move in their order: the error thrown, or "ok".
moveCheck(state, token, x, y) ==
    LET me == mePlayerFromState(state, token) IN
    IF state.status # "playing" \/ state.turn = NoTurn THEN "Game not started"
    ELSE IF me = 0 THEN "Not a player"
    ELSE IF state.turn # me THEN "Not your turn"
    ELSE IF <<x, y>> \notin {getLegalMoves(state.board, me)[k] :
                               k \in 1 .. Len(getLegalMoves(state.board, me))}
    THEN "Illegal move"
    ELSE "ok"

\* The checks of POST /pass without the check that no move is legal.
passCheck_SkipsLegalMoves(state, token) ==
    LET me == mePlayerFromState(state, token) IN
    IF state.status # "playing" \/ state.turn = NoTurn THEN "Game not started"
    ELSE IF me = 0 THEN "Not a player"
    ELSE IF state.turn # me THEN "Not your turn"
    ELSE "ok"

\* The checks of POST /pass in their order.
passCheck(state, token) ==
    LET me == mePlayerFromState(state, token) IN
    IF state.status # "playing" \/ state.turn = NoTurn THEN "Game not started"
    ELSE IF me = 0 THEN "Not a player"
    ELSE IF state.turn # me THEN "Not your turn"
    ELSE IF Len(getLegalMoves(state.board, me)) > 0 THEN "Pass not allowed"
    ELSE "ok"

\* aiStepLoop's transition with a pass that clears the move marker.
aiTransition_PassClearsLastMove(state, level) ==
    LET aiPlayer == state.turn
        chosen == chooseAiMove(state.board, aiPlayer, aiLevelToInt(level))
    IN  IF Len(getLegalMoves(state.board, aiPlayer)) = 0
        THEN [passTransition(state, aiPlayer) EXCEPT !.lastMove = NoMove]
        ELSE moveTransition(state, chosen[1], chosen[2], aiPlayer)

\* One iteration of the loop of aiStepLoop on the state in memory: the state
\* it persists. Only used when isAiTurn holds.
aiTransition(state, level) ==
    LET aiPlayer == state.turn
        chosen == chooseAiMove(state.board, aiPlayer, aiLevelToInt(level))
    IN  IF Len(getLegalMoves(state.board, aiPlayer)) = 0
        THEN passTransition(state, aiPlayer)
        ELSE moveTransition(state, chosen[1], chosen[2], aiPlayer)

(***************************************************************************)
(* Rooms the model starts from                                             *)
(***************************************************************************)
\* Handicap lists (POST /room/create and POST /room/ai take any indexes).
\* NearEndA: black to move with two legal moves, (7,0) and (7,2); (7,2) ends
\* the game with one cell empty, (7,0) makes white pass.
NearEndA ==
    [black |-> {0, 1, 2, 3, 4, 5, 6, 10, 11, 12, 13, 15, 21, 25, 29, 32, 33, 37,
                38, 41, 42, 44, 45, 49, 50, 51, 52, 53, 54, 56, 57, 58, 60, 61,
                62, 63},
     white |-> {8, 9, 14, 16, 17, 18, 19, 20, 22, 24, 26, 30, 31, 34, 39, 40, 43,
                46, 47, 48, 55, 59}]

\* NearEndB: black to move has no legal move, white has (1,7) and (3,7).
NearEndB ==
    [black |-> {2, 3, 8, 13, 14, 15, 17, 19, 22, 23, 24, 25, 30, 31, 32, 33, 34,
                37, 38, 39, 40, 41, 46, 47, 48, 49, 50, 51, 52, 58, 60, 61, 62},
     white |-> {0, 1, 4, 5, 6, 7, 9, 10, 11, 12, 16, 18, 20, 21, 26, 29, 42, 43,
                44, 45, 53, 54, 55, 56, 63}]

\* FullBoard: every cell outside the centre is black.
FullBoard == [black |-> Cells, white |-> {}]

NoHandicap == [black |-> {}, white |-> {}]

\* Two codes of generateUniqueInviteCode, and a code of no room.
PlayerCode == <<"P", "C", "O", "D", "E", "1">>

SpectatorCode == <<"S", "C", "O", "D", "E", "1">>

WrongCode == <<"W", "R", "O", "N", "G", "1">>

\* The meta hash POST /room/create writes.
InviteRoom(handicap) ==
    [NoMeta EXCEPT !.present = TRUE, !.mode = "invite",
                   !.inviteCode = PlayerCode, !.spectatorCode = SpectatorCode,
                   !.allowSpectators = TRUE, !.spectatorCanViewChat = TRUE,
                   !.handicap = handicap, !.ttlSeconds = ROOM_TTL_SECONDS]

\* The meta hash POST /room/match writes for a new room.
MatchRoom ==
    [NoMeta EXCEPT !.present = TRUE, !.mode = "match",
                   !.ttlSeconds = ROOM_TTL_SECONDS]

\* The meta hash POST /room/ai writes.
AiRoom(handicap, aiLevel, humanPlays) ==
    [NoMeta EXCEPT !.present = TRUE, !.mode = "ai", !.pve = TRUE,
                   !.handicap = handicap, !.aiLevel = aiLevel,
                   !.humanPlays = humanPlays, !.ttlSeconds = ROOM_TTL_SECONDS]

Rooms ==
    {InviteRoom(h) : h \in {NoHandicap, NearEndA, NearEndB, FullBoard}}
    \cup {AiRoom(NearEndA, "normal", "random"),
          AiRoom(NearEndB, "hard", "white")}

RaceRooms == {InviteRoom(NearEndA)}

\* The rooms of the admission checks: an invite room that never expires and
\* one with a countdown of its own, a room of the match queue and an AI room.
AdmitRooms ==
    {[InviteRoom(NoHandicap) EXCEPT !.ttlSeconds = s] : s \in {TtlNull, 900}}
    \cup {MatchRoom, AiRoom(NearEndA, "normal", "black")}

DestroyRooms == {InviteRoom(NoHandicap)}

\* The coordinates a move request may carry.
MoveCells == {<<7, 0>>, <<7, 2>>, <<1, 7>>, <<3, 7>>, <<3, 2>>, <<2, 2>>}

\* The codes a visitor may present (NoCode is no code parameter).
Codes == {NoCode, PlayerCode, SpectatorCode, WrongCode}

\* The same with codes as a visitor may type them: in lower case, padded
\* with blanks, or blanks only.
TypedCodes ==
    Codes \cup {<<" ", "p", "c", "o", "d", "e", "1">>,
                <<"s", "C", "o", "d", "e", "1", " ">>,
                <<" ", " ">>}

\* nanoid(): the k-th token minted.
TokenNames == <<"t1", "t2", "t3", "t4", "t5">>

MaxTokens == 3

MaxChats == 1

MaxOverlaps == 1

\* The step of time, in seconds, and how often it passes.
TickSeconds == 300

MaxTicks == 2

\* How many discs a play of the board checks places.
MaxPlies == 4

\* The loop bound of POST /room/match: for (let i = 0; i < 8; i++).
MatchTries == 8

\* How long queue:rooms is at most when the calls start, and how many rooms
\* the calls make at most.
MaxQueue == 9

MaxMade == 2

MatchIds == 1 .. (MaxQueue + MaxMade)

\* The callers of POST /room/match; each calls once.
Callers == {1, 2}

SPECTATOR_CAPACITY == 2

Req == {1, 2}

Ai == {1, 2}

(***************************************************************************)
(* State                                                                   *)
(***************************************************************************)
VARIABLES
    meta,       \* the hash meta:<room>
    game,       \* the value game:<room>
    messages,   \* the length of the list messages:<room> (0: no key)
    invite,     \* whether invite:player:<code> and invite:spectator:<code> exist
    aiLock,     \* whether lock:ai:<room> exists
    aiTimer,    \* the timeouts of the room that have not fired: armed, whether
                \* aiTimers holds one; orphans, how many aiTimers does not hold
    req,        \* the requests in flight, one per slot
    ai,         \* the aiStepLoop invocations in flight
    minted,     \* the number of tokens the middleware has minted
    chats,      \* the number of chat posts started
    overlaps,   \* how many more requests may start while another is in flight
    ttl,        \* redis.ttl of the room's keys, in seconds
    ticks,      \* how often time has advanced by TickSeconds
    queue,      \* the list queue:rooms of POST /room/match
    lobby,      \* the meta hashes of the rooms POST /room/match made, by room id
    matchCalls, \* the POST /room/match calls in flight
    matchMade   \* the number of rooms POST /room/match has made

\* What POST /room/match works on.
matchVars == <<queue, lobby, matchCalls, matchMade>>

vars == <<meta, game, messages, invite, aiLock, aiTimer, req, ai, minted, chats, overlaps, ttl, ticks,
          queue, lobby, matchCalls, matchMade>>

\* The other variables, but for the token counter.
roomVars == <<meta, game, messages, invite, aiLock, aiTimer, req, ai, chats, overlaps, ttl, ticks>>

\* No room id (lpop of an empty list gives null).
NoRoomId == 0

IdleMatch == [pc |-> "idle", i |-> 0, candidate |-> NoRoomId, popped |-> << >>,
              roomId |-> NoRoomId, res |-> NoRoomId]

\* No POST /room/match has been called.
NoMatch ==
    /\ queue = << >>
    /\ lobby = [id \in MatchIds |-> [meta |-> NoMeta, ttl |-> NoKeyTtl]]
    /\ matchCalls = [c \in Callers |-> IdleMatch]
    /\ matchMade = 0

\* The part of the result of GET /room/info that carries the caller's role
\* and the invite codes.
NoInfo == [role |-> "", inviteCode |-> NoCode, spectatorCode |-> NoCode]

roomInfo(m, role) ==
    [role |-> role, inviteCode |-> m.inviteCode, spectatorCode |-> m.spectatorCode]

\* aiTimers without an entry of the room, and no timeout of the room left.
NoTimer == [armed |-> FALSE, orphans |-> 0]

IdleReq ==
    [kind |-> "idle", pc |-> "idle", token |-> NoToken, role |-> "", info |-> NoInfo,
     ameta |-> NoMeta, state |-> NoGame, base |-> NoGame,
     dirty |-> FALSE, startedNow |-> FALSE, hset |-> FALSE, color |-> "",
     hadGame |-> FALSE, wrote |-> FALSE, emitted |-> FALSE,
     res |-> "", x |-> 0, y |-> 0, pending |-> {}]

\* owns: whether the lock key the invocation has set is still the one in the
\* store (the store keeps no owner: every invocation sets the value "1").
IdleAi == [pc |-> "idle", ameta |-> NoMeta, state |-> NoGame, guard |-> 0, owns |-> FALSE]

\* A request that has returned: only what it answered and what it did is
\* kept, and for an acknowledged move or pass the caller, the state it acted
\* on and the cell.
Done(q, res) ==
    [IdleReq EXCEPT !.kind = q.kind, !.pc = "done", !.res = res, !.info = q.info,
                    !.hadGame = q.hadGame, !.wrote = q.wrote, !.emitted = q.emitted,
                    !.token = IF res = "ok" /\ q.kind \in {"move", "pass"} THEN q.token ELSE NoToken,
                    !.base = IF res = "ok" THEN q.base ELSE NoGame,
                    !.x = IF res = "ok" THEN q.x ELSE 0,
                    !.y = IF res = "ok" THEN q.y ELSE 0]

\* The store right after the room was created by POST /room/create or
\* POST /room/ai, with no request in flight.
Created(rooms) ==
    /\ meta \in rooms
    /\ game = NoGame
    /\ messages = 0
    /\ invite = [player |-> meta.inviteCode # NoCode, spectator |-> meta.spectatorCode # NoCode]
    /\ aiLock = FALSE
    /\ aiTimer = NoTimer
    /\ req = [r \in Req |-> IdleReq]
    /\ ai = [a \in Ai |-> IdleAi]
    /\ minted = 0
    /\ chats = 0
    /\ ttl = [meta |-> WAITING_ROOM_TTL_SECONDS, game |-> NoKeyTtl, messages |-> NoKeyTtl,
              invitePlayer |-> IF invite.player THEN WAITING_ROOM_TTL_SECONDS ELSE NoKeyTtl,
              inviteSpectator |-> IF invite.spectator THEN WAITING_ROOM_TTL_SECONDS ELSE NoKeyTtl]
    /\ ticks = 0
    /\ NoMatch

\* The requests of the clients are served one after the other; the
\* aiStepLoop invocations run beside them and beside each other.
Init ==
    /\ Created(Rooms)
    /\ overlaps = 0

\* Requests of two clients overlap, in the rooms of two players.
InitRace ==
    /\ Created(RaceRooms)
    /\ overlaps = MaxOverlaps

\* Admissions, GET /game, GET /room/info and POST /messages are served one
\* after the other, and time passes between them.
InitAdmit ==
    /\ Created(AdmitRooms)
    /\ overlaps = 0

\* Admissions to the same rooms overlap each other.
InitJoin ==
    /\ Created(AdmitRooms)
    /\ overlaps = MaxOverlaps

\* The rooms of the board checks, and a room of two players whose game has
\* just started.
BoardRooms == {InviteRoom(h) : h \in {NoHandicap, NearEndA, NearEndB}}

InitBoard ==
    /\ \E room \in BoardRooms :
        /\ meta = hsetLists(room, <<TokenNames[1], TokenNames[2]>>, << >>)
        /\ game = ensureGame(NoGame, meta.players, meta, TRUE).state
    /\ messages = 0
    /\ invite = [player |-> TRUE, spectator |-> TRUE]
    /\ aiLock = FALSE
    /\ aiTimer = NoTimer
    /\ req = [r \in Req |-> IdleReq]
    /\ ai = [a \in Ai |-> IdleAi]
    /\ minted = 2
    /\ chats = 0
    /\ overlaps = 0
    /\ ttl = [k \in {"meta", "game", "messages", "invitePlayer", "inviteSpectator"} |->
                 IF k = "messages" THEN NoKeyTtl ELSE ROOM_TTL_SECONDS]
    /\ ticks = 0
    /\ NoMatch

\* Requests overlap around a DELETE /room.
InitDestroy ==
    /\ Created(DestroyRooms)
    /\ overlaps = MaxOverlaps

MintedTokens == {TokenNames[k] : k \in 1 .. minted}

Range(seq) == {seq[k] : k \in 1 .. Len(seq)}

InFlight(r) == req[r].pc \notin {"idle", "done"}

\* A request starts in the lowest free slot (the slots are interchangeable)
\* once the responses that are ready have been sent (sending one touches
\* nothing a request reads); one that starts while another is in flight uses
\* up one of the overlaps.
FreeSlot(r) ==
    /\ req[r].pc = "idle"
    /\ \A r2 \in Req : r2 < r => req[r2].pc # "idle"
    /\ \A r2 \in Req : req[r2].pc # "done"
    /\ IF \E r2 \in Req : InFlight(r2)
       THEN overlaps > 0 /\ overlaps' = overlaps - 1
       ELSE overlaps' = overlaps

FreeAi(a) ==
    /\ ai[a].pc = "idle"
    /\ \A a2 \in Ai : a2 < a => ai[a2].pc # "idle"

(***************************************************************************)
(* Admission: src/middleware.ts                                            *)
(***************************************************************************)
\* keys.ts normalizeInviteCode: code.trim().toUpperCase().
LowerCase == <<"a", "b", "c", "d", "e", "f", "g", "h", "i", "j", "k", "l", "m",
               "n", "o", "p", "q", "r", "s", "t", "u", "v", "w", "x", "y", "z">>

UpperCase == <<"A", "B", "C", "D", "E", "F", "G", "H", "I", "J", "K", "L", "M",
               "N", "O", "P", "Q", "R", "S", "T", "U", "V", "W", "X", "Y", "Z">>

toUpperCase(ch) ==
    IF \E k \in 1 .. Len(LowerCase) : LowerCase[k] = ch
    THEN UpperCase[CHOOSE k \in 1 .. Len(LowerCase) : LowerCase[k] = ch]
    ELSE ch

RECURSIVE trimStart(_)
trimStart(code) ==
    IF code # << >> /\ Head(code) = " " THEN trimStart(Tail(code)) ELSE code

RECURSIVE trimEnd(_)
trimEnd(code) ==
    IF code # << >> /\ code[Len(code)] = " "
    THEN trimEnd(SubSeq(code, 1, Len(code) - 1)) ELSE code

normalizeInviteCode(code) ==
    LET trimmed == trimEnd(trimStart(code))
    IN  [k \in 1 .. Len(trimmed) |-> toUpperCase(trimmed[k])]

\* isInviteCodeMatch taking every code for the player code.
isInviteCodeMatch_AnyCode(m, provided) ==
    [isPlayer |-> TRUE, isSpectator |-> provided = m.spectatorCode]

\* isInviteCodeMatch.
isInviteCodeMatch(m, provided) ==
    [isPlayer |-> provided = m.inviteCode, isSpectator |-> provided = m.spectatorCode]

\* joinDecision without the checks of the two capacities.
joinDecision_NoCaps(m, code) ==
    LET mode == IF m.mode = "" THEN "invite" ELSE m.mode
        provided == normalizeInviteCode(code)
        match == isInviteCodeMatch(m, provided)
    IN  IF m.pve \/ mode = "ai" \/ mode # "invite" THEN "player"
        ELSE IF provided = NoCode
        THEN IF Len(m.players) = 0 THEN "player" ELSE "invite-code-required"
        ELSE IF match.isPlayer THEN "player"
        ELSE IF match.isSpectator /\ m.allowSpectators THEN "spectator"
        ELSE "code-invalid"

\* The role a visitor without a token of the room gets, or the error it is
\* redirected with; code is the code parameter of the URL.
joinDecision(m, code) ==
    LET mode == IF m.mode = "" THEN "invite" ELSE m.mode
        provided == normalizeInviteCode(code)
        match == isInviteCodeMatch(m, provided)
        nP == Len(m.players)
        nS == Len(m.spectators)
        capped(role) ==
            IF role = "player" /\ nP >= 2 THEN "room-full"
            ELSE IF role = "spectator" /\ nS >= SPECTATOR_CAPACITY THEN "spectator-full"
            ELSE role
    IN  IF m.pve \/ mode = "ai"
        THEN IF nP >= 1 THEN "room-full" ELSE "player"
        ELSE IF mode # "invite"
        THEN IF nP >= 2 THEN "room-full" ELSE capped("player")
        ELSE IF provided = NoCode
        THEN IF nP = 0 THEN capped("player") ELSE "invite-code-required"
        ELSE IF match.isPlayer THEN capped("player")
        ELSE IF match.isSpectator /\ m.allowSpectators THEN capped("spectator")
        ELSE "code-invalid"

\* JoinRead without the check of the cookie against the lists.
JoinRead_IgnoresCookie(r, tok, code) ==
    /\ FreeSlot(r)
    /\ tok \in MintedTokens \cup {NoToken}
    /\ minted < MaxTokens
    /\ LET d == joinDecision(meta, code) IN
       IF ~meta.present
       THEN /\ req' = [req EXCEPT ![r] =
                    Done([IdleReq EXCEPT !.kind = "join"], "room-not-found")]
            /\ minted' = minted
       ELSE IF d \notin {"player", "spectator"}
       THEN /\ req' = [req EXCEPT ![r] = Done([IdleReq EXCEPT !.kind = "join"], d)]
            /\ minted' = minted
       ELSE /\ req' = [req EXCEPT ![r] =
                    [IdleReq EXCEPT !.kind = "join", !.pc = "hset",
                                    !.token = TokenNames[minted + 1],
                                    !.role = d, !.ameta = meta]]
            /\ minted' = minted + 1
    /\ UNCHANGED <<meta, game, messages, invite, aiLock, aiTimer, ai, chats, ttl, ticks>>
    /\ UNCHANGED matchVars

\* middleware up to its hset: a visitor whose x-auth-token cookie is tok
\* (NoToken: no cookie) asks for /room/<id>, presenting code.
JoinRead(r, tok, code) ==
    /\ FreeSlot(r)
    /\ tok \in MintedTokens \cup {NoToken}
    /\ LET d == joinDecision(meta, code)
           known == tok # NoToken
                    /\ (tok \in Range(meta.players) \/ tok \in Range(meta.spectators))
       IN  /\ known \/ minted < MaxTokens
           /\ IF ~meta.present
              THEN /\ req' = [req EXCEPT ![r] =
                           Done([IdleReq EXCEPT !.kind = "join"], "room-not-found")]
                   /\ minted' = minted
              ELSE IF known
              THEN /\ req' = [req EXCEPT ![r] = Done([IdleReq EXCEPT !.kind = "join"], "next")]
                   /\ minted' = minted
              ELSE IF d \notin {"player", "spectator"}
              THEN /\ req' = [req EXCEPT ![r] = Done([IdleReq EXCEPT !.kind = "join"], d)]
                   /\ minted' = minted
              ELSE /\ req' = [req EXCEPT ![r] =
                           [IdleReq EXCEPT !.kind = "join", !.pc = "hset",
                                           !.token = TokenNames[minted + 1],
                                           !.role = d, !.ameta = meta]]
                   /\ minted' = minted + 1
    /\ UNCHANGED <<meta, game, messages, invite, aiLock, aiTimer, ai, chats, ttl, ticks>>
    /\ UNCHANGED matchVars

\* redis.hset(metaKey, {players: nextPlayers, spectators: nextSpectators})
\* and the calls on the countdowns that follow it.
JoinWrite_CountdownAtEveryJoin(r) ==
    /\ req[r].pc = "hset"
    /\ LET q == req[r]
           nextPlayers == IF q.role = "player"
                          THEN Append(q.ameta.players, q.token) ELSE q.ameta.players
           nextSpectators == IF q.role = "spectator"
                             THEN Append(q.ameta.spectators, q.token) ELSE q.ameta.spectators
           becamePlayable ==
               IF q.ameta.pve
               THEN Len(q.ameta.players) = 0 /\ Len(nextPlayers) = 1
               ELSE Len(q.ameta.players) = 1 /\ Len(nextPlayers) = 2
           ttlSeconds == getConfiguredTtlSeconds(q.ameta)
           set(t) == applyRemaining(t, ttlSeconds)
           t0 == [ttl EXCEPT !.meta = touched(ttl.meta)]
       IN  /\ meta' = hsetLists(meta, nextPlayers, nextSpectators)
           /\ ttl' = IF TRUE
                     THEN [meta |-> set(t0.meta), game |-> set(t0.game),
                           messages |-> set(t0.messages),
                           invitePlayer |-> IF q.ameta.inviteCode # NoCode
                                            THEN set(t0.invitePlayer) ELSE t0.invitePlayer,
                           inviteSpectator |-> IF q.ameta.spectatorCode # NoCode
                                               THEN set(t0.inviteSpectator)
                                               ELSE t0.inviteSpectator]
                     ELSE IF t0.meta <= 0
                     THEN [t0 EXCEPT !.meta = expire(t0.meta, WAITING_ROOM_TTL_SECONDS)]
                     ELSE t0
           /\ req' = [req EXCEPT ![r] = Done(q, "ok")]
    /\ UNCHANGED <<game, messages, invite, aiLock, aiTimer, ai, minted, chats, overlaps, ticks>>
    /\ UNCHANGED matchVars

JoinWrite(r) ==
    /\ req[r].pc = "hset"
    /\ LET q == req[r]
           nextPlayers == IF q.role = "player"
                          THEN Append(q.ameta.players, q.token) ELSE q.ameta.players
           nextSpectators == IF q.role = "spectator"
                             THEN Append(q.ameta.spectators, q.token) ELSE q.ameta.spectators
           becamePlayable ==
               IF q.ameta.pve
               THEN Len(q.ameta.players) = 0 /\ Len(nextPlayers) = 1
               ELSE Len(q.ameta.players) = 1 /\ Len(nextPlayers) = 2
           ttlSeconds == getConfiguredTtlSeconds(q.ameta)
           set(t) == applyRemaining(t, ttlSeconds)
           t0 == [ttl EXCEPT !.meta = touched(ttl.meta)]
       IN  /\ meta' = hsetLists(meta, nextPlayers, nextSpectators)
           /\ ttl' = IF becamePlayable
                     THEN [meta |-> set(t0.meta), game |-> set(t0.game),
                           messages |-> set(t0.messages),
                           invitePlayer |-> IF q.ameta.inviteCode # NoCode
                                            THEN set(t0.invitePlayer) ELSE t0.invitePlayer,
                           inviteSpectator |-> IF q.ameta.spectatorCode # NoCode
                                               THEN set(t0.inviteSpectator)
                                               ELSE t0.inviteSpectator]
                     ELSE IF t0.meta <= 0
                     THEN [t0 EXCEPT !.meta = expire(t0.meta, WAITING_ROOM_TTL_SECONDS)]
                     ELSE t0
           /\ req' = [req EXCEPT ![r] = Done(q, "ok")]
    /\ UNCHANGED <<game, messages, invite, aiLock, aiTimer, ai, minted, chats, overlaps, ticks>>
    /\ UNCHANGED matchVars

(***************************************************************************)
(* authMiddleware: src/server/auth.ts                                      *)
(***************************************************************************)
RouteKinds == {"get", "move", "pass", "chat", "destroy", "info"}

GameKinds == {"get", "move", "pass"}

DestroyKinds == {"get", "chat", "destroy"}

AdmitKinds == {"get", "chat", "info"}

\* Auth with a DELETE /room that does not check the role.
Auth_AnyRoleDestroys(r, kind, tok) ==
    /\ FreeSlot(r)
    /\ kind \in RouteKinds
    /\ tok \in MintedTokens
    /\ IF kind = "chat" THEN chats < MaxChats /\ chats' = chats + 1 ELSE chats' = chats
    /\ LET isPlayer == tok \in Range(meta.players)
           isSpectator == tok \in Range(meta.spectators)
           role == IF isPlayer THEN "player" ELSE "spectator"
           q == [IdleReq EXCEPT !.kind = kind, !.token = tok, !.role = role, !.ameta = meta]
       IN  req' = [req EXCEPT ![r] =
                IF ~meta.present \/ (~isPlayer /\ ~isSpectator)
                THEN Done([IdleReq EXCEPT !.kind = kind, !.token = tok], "Unauthorized")
                ELSE IF kind = "destroy" THEN [q EXCEPT !.pc = "readmeta"]
                ELSE IF kind = "info"
                THEN Done([q EXCEPT !.info = roomInfo(meta, role)], "ok")
                ELSE [q EXCEPT !.pc = "exists"]]
    /\ UNCHANGED <<meta, game, messages, invite, aiLock, aiTimer, ai, minted, ttl, ticks>>
    /\ UNCHANGED matchVars

\* The derive of authMiddleware for a request of kind by the holder of token
\* tok; DELETE /room checks the role right after it, and GET /room/info
\* answers from auth.meta.
Auth(r, kind, tok) ==
    /\ FreeSlot(r)
    /\ kind \in RouteKinds
    /\ tok \in MintedTokens
    /\ IF kind = "chat" THEN chats < MaxChats /\ chats' = chats + 1 ELSE chats' = chats
    /\ LET isPlayer == tok \in Range(meta.players)
           isSpectator == tok \in Range(meta.spectators)
           role == IF isPlayer THEN "player" ELSE "spectator"
           q == [IdleReq EXCEPT !.kind = kind, !.token = tok, !.role = role, !.ameta = meta]
       IN  req' = [req EXCEPT ![r] =
                IF ~meta.present \/ (~isPlayer /\ ~isSpectator)
                THEN Done([IdleReq EXCEPT !.kind = kind, !.token = tok], "Unauthorized")
                ELSE IF kind = "destroy"
                THEN IF role # "player" THEN Done(q, "forbidden")
                     ELSE [q EXCEPT !.pc = "readmeta"]
                ELSE IF kind = "info"
                THEN Done([q EXCEPT !.info = roomInfo(meta, role)], "ok")
                ELSE [q EXCEPT !.pc = "exists"]]
    /\ UNCHANGED <<meta, game, messages, invite, aiLock, aiTimer, ai, minted, ttl, ticks>>
    /\ UNCHANGED matchVars

(***************************************************************************)
(* The game routes: src/server/game.ts                                     *)
(***************************************************************************)
\* redis.exists(metaKey) and the checks up to the next store call, of
\* GET /game, POST /game/move, POST /game/pass and POST /messages.
Exists(r) ==
    /\ req[r].pc = "exists"
    /\ LET q == req[r] IN
       req' = [req EXCEPT ![r] =
            IF ~meta.present THEN Done(q, "Room does not exist")
            ELSE IF q.kind \in {"move", "pass"} /\ q.role # "player"
            THEN Done(q, "Not a player")
            ELSE IF q.kind = "chat"
            THEN IF q.role = "spectator"
                    /\ ~(q.ameta.spectatorCanViewChat /\ q.ameta.spectatorCanSendChat)
                 THEN Done(q, "forbidden")
                 ELSE [q EXCEPT !.pc = "push"]
            ELSE [q EXCEPT !.pc = "load"]]
    /\ UNCHANGED <<meta, game, messages, invite, aiLock, aiTimer, ai, minted, chats, overlaps, ttl, ticks>>
    /\ UNCHANGED matchVars

\* ensureGame: redis.get(gameKey) and what follows in memory.
Load(r, flip) ==
    /\ req[r].pc = "load"
    /\ LET q == req[r]
           e == ensureGame(game, q.ameta.players, q.ameta, flip)
       IN  req' = [req EXCEPT ![r] =
                [q EXCEPT !.state = e.state, !.dirty = e.dirty,
                          !.startedNow = e.startedNow, !.hset = e.hset,
                          !.color = e.color, !.hadGame = (game # NoGame),
                          !.pc = IF e.hset THEN "resolve"
                                 ELSE IF e.dirty THEN "ensure" ELSE "act"]]
    /\ UNCHANGED <<meta, game, messages, invite, aiLock, aiTimer, ai, minted, chats, overlaps, ttl, ticks>>
    /\ UNCHANGED matchVars

\* resolveHumanColor: redis.hset(metaKey, {humanPlaysResolved: color}).
Resolve(r) ==
    /\ req[r].pc = "resolve"
    /\ meta' = hsetResolved(meta, req[r].color)
    /\ ttl' = [ttl EXCEPT !.meta = touched(ttl.meta)]
    /\ req' = [req EXCEPT ![r].pc = "ensure"]
    /\ UNCHANGED <<game, messages, invite, aiLock, aiTimer, ai, minted, chats, overlaps, ticks>>
    /\ UNCHANGED matchVars

\* ensureGame: redis.set(gameKey, state) when dirty, and the game.state event
\* when the game started now.
Ensure(r) ==
    /\ req[r].pc = "ensure"
    /\ game' = req[r].state
    /\ ttl' = persistTtl(ttl)
    /\ req' = [req EXCEPT ![r].pc = "act", ![r].wrote = TRUE,
                          ![r].emitted = req[r].startedNow]
    /\ UNCHANGED <<meta, messages, invite, aiLock, aiTimer, ai, minted, chats, overlaps, ticks>>
    /\ UNCHANGED matchVars

\* scheduleAi, called when meta.pve: clearTimeout(prev), setTimeout,
\* aiTimers.set.
scheduleAi_NoClearTimeout(m) ==
    IF m.pve
    THEN [armed |-> TRUE, orphans |-> aiTimer.orphans + IF aiTimer.armed THEN 1 ELSE 0]
    ELSE aiTimer

scheduleAi(m) == IF m.pve THEN [armed |-> TRUE, orphans |-> aiTimer.orphans] ELSE aiTimer

\* GET /game after ensureGame.
ActGet(r) ==
    /\ req[r].pc = "act" /\ req[r].kind = "get"
    /\ aiTimer' = scheduleAi(req[r].ameta)
    /\ req' = [req EXCEPT ![r] = Done(req[r], "ok")]
    /\ UNCHANGED <<meta, game, messages, invite, aiLock, ai, minted, chats, overlaps, ttl, ticks>>
    /\ UNCHANGED matchVars

\* POST /game/move after ensureGame, with body {x, y}.
ActMove(r, x, y) ==
    /\ req[r].pc = "act" /\ req[r].kind = "move"
    /\ LET q == [req[r] EXCEPT !.x = x, !.y = y]
           chk == moveCheck(q.state, q.token, x, y)
           me == mePlayerFromState(q.state, q.token)
       IN  IF chk # "ok"
           THEN /\ req' = [req EXCEPT ![r] = Done(q, chk)]
                /\ UNCHANGED <<game, aiTimer, ttl, ticks>>
           ELSE /\ game' = moveTransition(q.state, x, y, me)
                /\ ttl' = persistTtl(ttl)
                /\ aiTimer' = scheduleAi(q.ameta)
                /\ req' = [req EXCEPT ![r] =
                        Done([q EXCEPT !.base = q.state, !.wrote = TRUE, !.emitted = TRUE], "ok")]
    /\ UNCHANGED <<meta, messages, invite, aiLock, ai, minted, chats, overlaps, ticks>>
    /\ UNCHANGED matchVars

\* POST /game/pass after ensureGame.
ActPass(r) ==
    /\ req[r].pc = "act" /\ req[r].kind = "pass"
    /\ LET q == req[r]
           chk == passCheck(q.state, q.token)
           me == mePlayerFromState(q.state, q.token)
       IN  IF chk # "ok"
           THEN /\ req' = [req EXCEPT ![r] = Done(q, chk)]
                /\ UNCHANGED <<game, aiTimer, ttl, ticks>>
           ELSE /\ game' = passTransition(q.state, me)
                /\ ttl' = persistTtl(ttl)
                /\ aiTimer' = scheduleAi(q.ameta)
                /\ req' = [req EXCEPT ![r] =
                        Done([q EXCEPT !.base = q.state, !.wrote = TRUE, !.emitted = TRUE], "ok")]
    /\ UNCHANGED <<meta, messages, invite, aiLock, ai, minted, chats, overlaps, ticks>>
    /\ UNCHANGED matchVars

(***************************************************************************)
(* POST /messages: src/server/messages.ts                                  *)
(***************************************************************************)
\* redis.rpush(messagesKey, message).
ChatPush(r) ==
    /\ req[r].pc = "push"
    /\ messages' = messages + 1
    /\ LET remaining == remainingTTLSeconds(ttl.meta) IN
       ttl' = [ttl EXCEPT !.messages = applyRemaining(touched(ttl.messages), remaining),
                          !.game = applyRemaining(ttl.game, remaining)]
    /\ req' = [req EXCEPT ![r] = Done(req[r], "ok")]
    /\ UNCHANGED <<meta, game, invite, aiLock, aiTimer, ai, minted, chats, overlaps, ticks>>
    /\ UNCHANGED matchVars

(***************************************************************************)
(* DELETE /room: src/server/rooms.ts                                       *)
(***************************************************************************)
\* redis.hgetall(metaKey) for the invite codes, the chat.destroy event, and
\* the five deletions of Promise.all issued.
DestroyRead(r) ==
    /\ req[r].pc = "readmeta"
    /\ req' = [req EXCEPT ![r].pc = "del", ![r].emitted = TRUE,
                          ![r].pending =
                              {"meta", "messages", "game"}
                              \cup (IF meta.inviteCode # NoCode THEN {"invitePlayer"} ELSE {})
                              \cup (IF meta.spectatorCode # NoCode THEN {"inviteSpectator"} ELSE {})]
    /\ UNCHANGED <<meta, game, messages, invite, aiLock, aiTimer, ai, minted, chats, overlaps, ttl, ticks>>
    /\ UNCHANGED matchVars

\* One redis.del of Promise.all reaches the store; the request returns when
\* all have.
DestroyDel(r, k) ==
    /\ req[r].pc = "del"
    /\ k \in req[r].pending
    /\ meta' = IF k = "meta" THEN NoMeta ELSE meta
    /\ messages' = IF k = "messages" THEN 0 ELSE messages
    /\ game' = IF k = "game" THEN NoGame ELSE game
    /\ invite' = IF k = "invitePlayer" THEN [invite EXCEPT !.player = FALSE]
                 ELSE IF k = "inviteSpectator" THEN [invite EXCEPT !.spectator = FALSE]
                 ELSE invite
    /\ ttl' = [ttl EXCEPT ![k] = NoKeyTtl]
    /\ req' = [req EXCEPT ![r] =
            IF req[r].pending = {k} THEN Done(req[r], "ok")
            ELSE [req[r] EXCEPT !.pending = req[r].pending \ {k}]]
    /\ UNCHANGED <<aiLock, aiTimer, ai, minted, chats, overlaps, ticks>>
    /\ UNCHANGED matchVars

\* The response has been sent: the slot is free again.
Return(r) ==
    /\ req[r].pc = "done"
    /\ req' = [req EXCEPT ![r] = IdleReq]
    /\ UNCHANGED <<meta, game, messages, invite, aiLock, aiTimer, ai, minted, chats, overlaps, ttl, ticks>>
    /\ UNCHANGED matchVars

(***************************************************************************)
(* The AI scheduler: scheduleAi and aiStepLoop, src/server/game.ts         *)
(***************************************************************************)
\* The timer of scheduleAi fires: aiTimers.delete(roomId); aiStepLoop(roomId).
TimerFire(a) ==
    /\ FreeAi(a)
    /\ \/ /\ aiTimer.armed
          /\ aiTimer' = [aiTimer EXCEPT !.armed = FALSE]
       \/ /\ aiTimer.orphans > 0
          /\ aiTimer' = [armed |-> FALSE,
                         orphans |-> aiTimer.orphans - 1 + IF aiTimer.armed THEN 1 ELSE 0]
    /\ ai' = [ai EXCEPT ![a].pc = "meta"]
    /\ UNCHANGED <<meta, game, messages, invite, aiLock, req, minted, chats, overlaps, ttl, ticks>>
    /\ UNCHANGED matchVars

\* aiStepLoop: redis.hgetall(metaKey); if (!meta?.pve) return.
AiMeta(a) ==
    /\ ai[a].pc = "meta"
    /\ ai' = [ai EXCEPT ![a] = IF meta.present /\ meta.pve
                               THEN [IdleAi EXCEPT !.pc = "lock", !.ameta = meta]
                               ELSE IdleAi]
    /\ UNCHANGED <<meta, game, messages, invite, aiLock, aiTimer, req, minted, chats, overlaps, ttl, ticks>>
    /\ UNCHANGED matchVars

\* aiStepLoop: redis.set(lockKey, "1", {nx, px: 2500}); if (!lockOk) return.
AiLock(a) ==
    /\ ai[a].pc = "lock"
    /\ IF aiLock
       THEN /\ ai' = [ai EXCEPT ![a] = IdleAi]
            /\ aiLock' = aiLock
       ELSE /\ ai' = [ai EXCEPT ![a].pc = "get", ![a].owns = TRUE]
            /\ aiLock' = TRUE
    /\ UNCHANGED <<meta, game, messages, invite, aiTimer, req, minted, chats, overlaps, ttl, ticks>>
    /\ UNCHANGED matchVars

\* aiStepLoop: redis.get(gameKey).
AiGet(a) ==
    /\ ai[a].pc = "get"
    /\ ai' = [ai EXCEPT ![a].pc = "loop", ![a].state = game, ![a].guard = 0]
    /\ UNCHANGED <<meta, game, messages, invite, aiLock, aiTimer, req, minted, chats, overlaps, ttl, ticks>>
    /\ UNCHANGED matchVars

\* One iteration of the loop of aiStepLoop, up to its persistState and
\* game.state event.
AiStep(a) ==
    /\ ai[a].pc = "loop"
    /\ ai[a].state # NoGame
    /\ ai[a].guard < 6
    /\ isAiTurn(ai[a].state, ai[a].ameta)
    /\ LET next == aiTransition(ai[a].state, ai[a].ameta.aiLevel) IN
       /\ game' = next
       /\ ttl' = persistTtl(ttl)
       /\ ai' = [ai EXCEPT ![a].state = next, ![a].guard = ai[a].guard + 1]
    /\ UNCHANGED <<meta, messages, invite, aiLock, aiTimer, req, minted, chats, overlaps, ticks>>
    /\ UNCHANGED matchVars

\* aiStepLoop leaves the loop (no game record, not the AI's turn, or the
\* guard is used up) and its finally deletes the lock key.
AiRelease(a) ==
    /\ ai[a].pc = "loop"
    /\ ~(ai[a].state # NoGame /\ ai[a].guard < 6 /\ isAiTurn(ai[a].state, ai[a].ameta))
    /\ aiLock' = FALSE
    /\ ai' = [a2 \in Ai |-> IF a2 = a THEN IdleAi ELSE [ai[a2] EXCEPT !.owns = FALSE]]
    /\ UNCHANGED <<meta, game, messages, invite, aiTimer, req, minted, chats, overlaps, ttl, ticks>>
    /\ UNCHANGED matchVars

\* A call inside the try block of aiStepLoop throws (the store, the search
\* of chooseAiMove or the publish): the finally deletes the lock key and the
\* invocation ends.
AiThrow_KeepsLock(a) ==
    /\ ai[a].pc \in {"get", "loop"}
    /\ ai' = [ai EXCEPT ![a] = IdleAi]
    /\ UNCHANGED <<meta, game, messages, invite, aiLock, aiTimer, req, minted, chats, overlaps, ttl, ticks>>
    /\ UNCHANGED matchVars

AiThrow(a) ==
    /\ ai[a].pc \in {"get", "loop"}
    /\ aiLock' = FALSE
    /\ ai' = [a2 \in Ai |-> IF a2 = a THEN IdleAi ELSE [ai[a2] EXCEPT !.owns = FALSE]]
    /\ UNCHANGED <<meta, game, messages, invite, aiTimer, req, minted, chats, overlaps, ttl, ticks>>
    /\ UNCHANGED matchVars

\* The 2500 ms expiry of the lock key passes while the key exists.
LockExpire ==
    /\ aiLock
    /\ aiLock' = FALSE
    /\ ai' = [a \in Ai |-> [ai[a] EXCEPT !.owns = FALSE]]
    /\ UNCHANGED <<meta, game, messages, invite, aiTimer, req, minted, chats, overlaps, ttl, ticks>>
    /\ UNCHANGED matchVars

\* The transition of an accepted POST /game/move and POST /game/pass of the
\* player to move, request and response left out.
PlayMove(x, y) ==
    /\ game # NoGame
    /\ game.turn # NoTurn /\ isLegalMove(game.board, x, y, game.turn)
    /\ moveCheck(game, IF game.turn = 1 THEN game.blackToken ELSE game.whiteToken, x, y) = "ok"
    /\ countDiscs(game.board).black + countDiscs(game.board).white
         < Cardinality(sanitizeHandicap(meta).black \cup sanitizeHandicap(meta).white
                       \cup {i \in Cells : createInitialBoard[i] # 0}) + MaxPlies
    /\ game' = moveTransition(game, x, y, game.turn)
    /\ UNCHANGED <<meta, messages, invite, aiLock, aiTimer, req, ai, minted, chats,
                   overlaps, ttl, ticks>>
    /\ UNCHANGED matchVars

PlayPass ==
    /\ game # NoGame
    /\ passCheck(game, IF game.turn = 1 THEN game.blackToken ELSE game.whiteToken) = "ok"
    /\ game' = passTransition(game, game.turn)
    /\ UNCHANGED <<meta, messages, invite, aiLock, aiTimer, req, ai, minted, chats,
                   overlaps, ttl, ticks>>
    /\ UNCHANGED matchVars

\* TickSeconds pass, between two requests: the countdowns go down and the
\* keys whose countdown ends are gone.
Tick ==
    /\ ticks < MaxTicks
    /\ \A r \in Req : req[r].pc = "idle"
    /\ ticks' = ticks + 1
    /\ LET left(t) == IF t <= 0 THEN t
                      ELSE IF t <= TickSeconds THEN NoKeyTtl
                      ELSE t - TickSeconds
       IN  ttl' = [k \in DOMAIN ttl |-> left(ttl[k])]
    /\ meta' = IF ttl'.meta = NoKeyTtl THEN NoMeta ELSE meta
    /\ game' = IF ttl'.game = NoKeyTtl THEN NoGame ELSE game
    /\ messages' = IF ttl'.messages = NoKeyTtl THEN 0 ELSE messages
    /\ invite' = [player |-> ttl'.invitePlayer # NoKeyTtl,
                  spectator |-> ttl'.inviteSpectator # NoKeyTtl]
    /\ UNCHANGED <<aiLock, aiTimer, req, ai, minted, chats, overlaps>>
    /\ UNCHANGED matchVars

(***************************************************************************)
(* POST /room/match: src/server/rooms.ts                                   *)
(***************************************************************************)
\* The test of a candidate taking a room of two players as well.
matchUsable_FullToo(m) ==
    LET mode == IF m.mode = "" THEN "match" ELSE m.mode
    IN  m.present /\ mode = "match"

\* The test of POST /room/match on the hash of a candidate: players is an
\* array of fewer than 2 tokens and the mode, "match" when missing, is match.
matchUsable(m) ==
    LET mode == IF m.mode = "" THEN "match" ELSE m.mode
    IN  m.present /\ Len(m.players) < 2 /\ mode = "match"

\* redis.lpop("queue:rooms") of call c, at the top of an iteration; a call
\* that finds the list empty leaves the loop.
MatchPop_LeavesEntry(c) ==
    /\ matchCalls[c].pc \in {"idle", "pop"}
    /\ matchCalls[c].pc = "idle" => \A c2 \in Callers : c2 < c => matchCalls[c2].pc # "idle"
    /\ IF queue = << >>
       THEN matchCalls' = [matchCalls EXCEPT ![c].pc = "create"]
       ELSE matchCalls' = [matchCalls EXCEPT ![c].pc = "read", ![c].candidate = Head(queue),
                                  ![c].popped = Append(matchCalls[c].popped, Head(queue))]
    /\ UNCHANGED <<queue, lobby, matchMade, minted>>
    /\ UNCHANGED roomVars

MatchPop(c) ==
    /\ matchCalls[c].pc \in {"idle", "pop"}
    /\ matchCalls[c].pc = "idle" => \A c2 \in Callers : c2 < c => matchCalls[c2].pc # "idle"
    /\ IF queue = << >>
       THEN /\ matchCalls' = [matchCalls EXCEPT ![c].pc = "create"]
            /\ queue' = queue
       ELSE /\ matchCalls' = [matchCalls EXCEPT ![c].pc = "read", ![c].candidate = Head(queue),
                                      ![c].popped = Append(matchCalls[c].popped, Head(queue))]
            /\ queue' = Tail(queue)
    /\ UNCHANGED <<lobby, matchMade, minted>>
    /\ UNCHANGED roomVars

\* redis.hgetall(metaKey(candidate)) of call c and the test of the candidate:
\* the call returns it, or goes on with the next iteration, the last of
\* which leaves the loop.
MatchRead(c) ==
    /\ matchCalls[c].pc = "read"
    /\ matchCalls' = [matchCalls EXCEPT ![c] =
            IF matchUsable(lobby[matchCalls[c].candidate].meta)
            THEN [matchCalls[c] EXCEPT !.pc = "done", !.res = matchCalls[c].candidate]
            ELSE [matchCalls[c] EXCEPT !.i = matchCalls[c].i + 1,
                                  !.pc = IF matchCalls[c].i + 1 < MatchTries THEN "pop" ELSE "create"]]
    /\ UNCHANGED <<queue, lobby, matchMade, minted>>
    /\ UNCHANGED roomVars

\* redis.hset(metaKey(roomId), meta) of a room id of nanoid(), and
\* redis.expire(metaKey(roomId), WAITING_ROOM_TTL_SECONDS).
MatchHset(c) ==
    /\ matchCalls[c].pc = "create"
    /\ matchMade < MaxQueue + MaxMade
    /\ matchMade' = matchMade + 1
    /\ lobby' = [lobby EXCEPT ![matchMade + 1] =
                    [meta |-> MatchRoom,
                     ttl |-> expire(touched(lobby[matchMade + 1].ttl), WAITING_ROOM_TTL_SECONDS)]]
    /\ matchCalls' = [matchCalls EXCEPT ![c].pc = "push", ![c].roomId = matchMade + 1]
    /\ UNCHANGED <<queue, minted>>
    /\ UNCHANGED roomVars

\* redis.rpush("queue:rooms", roomId), and the call returns the new room.
MatchPush(c) ==
    /\ matchCalls[c].pc = "push"
    /\ queue' = Append(queue, matchCalls[c].roomId)
    /\ matchCalls' = [matchCalls EXCEPT ![c].pc = "done", ![c].res = matchCalls[c].roomId]
    /\ UNCHANGED <<lobby, matchMade, minted>>
    /\ UNCHANGED roomVars

\* The response of call c has been sent and its caller does no more.
MatchReturn(c) ==
    /\ matchCalls[c].pc = "done"
    /\ matchCalls' = [matchCalls EXCEPT ![c].pc = "returned"]
    /\ UNCHANGED <<queue, lobby, matchMade, minted>>
    /\ UNCHANGED roomVars

\* The caller of call c, or a visitor it gave the link to, opens the room
\* the call returned: the middleware admits a visitor without cookie and
\* code (decision, hset and the calls on the countdown, in one step).
LobbyJoin(c) ==
    /\ matchCalls[c].pc = "done"
    /\ minted < MaxTokens
    /\ LET id == matchCalls[c].res
           m == lobby[id].meta
           nextPlayers == Append(m.players, TokenNames[minted + 1])
       IN  /\ m.present
           /\ joinDecision(m, NoCode) = "player"
           /\ lobby' = [lobby EXCEPT ![id] =
                  [meta |-> hsetLists(m, nextPlayers, m.spectators),
                   ttl |-> IF Len(nextPlayers) = 2
                           THEN applyRemaining(lobby[id].ttl, getConfiguredTtlSeconds(m))
                           ELSE lobby[id].ttl]]
    /\ minted' = minted + 1
    /\ UNCHANGED <<queue, matchCalls, matchMade>>
    /\ UNCHANGED roomVars

\* The countdown of the meta key of room id ends; of the rooms still there
\* the one made first goes first.
LobbyExpire(id) ==
    /\ lobby[id].meta.present
    /\ lobby[id].ttl > 0
    /\ \A id2 \in MatchIds : id2 < id => ~lobby[id2].meta.present
    /\ lobby' = [lobby EXCEPT ![id] = [meta |-> NoMeta, ttl |-> NoKeyTtl]]
    /\ UNCHANGED <<queue, matchCalls, matchMade, minted>>
    /\ UNCHANGED roomVars

\* Calls of POST /room/match, overlapping, on a queue that earlier calls
\* have left: n rooms, of which the first u have expired and the others
\* wait for their first player.
InitMatch ==
    /\ meta = NoMeta
    /\ game = NoGame
    /\ messages = 0
    /\ invite = [player |-> FALSE, spectator |-> FALSE]
    /\ aiLock = FALSE
    /\ aiTimer = NoTimer
    /\ req = [r \in Req |-> IdleReq]
    /\ ai = [a \in Ai |-> IdleAi]
    /\ minted = 0
    /\ chats = 0
    /\ overlaps = 0
    /\ ttl = [k \in {"meta", "game", "messages", "invitePlayer", "inviteSpectator"} |-> NoKeyTtl]
    /\ ticks = 0
    /\ \E n \in {0, 1, MaxQueue} : \E u \in {0, n - 1, n} \cap (0 .. n) :
        /\ queue = [k \in 1 .. n |-> k]
        /\ lobby = [id \in MatchIds |->
                       IF id > u /\ id <= n
                       THEN [meta |-> MatchRoom, ttl |-> WAITING_ROOM_TTL_SECONDS]
                       ELSE [meta |-> NoMeta, ttl |-> NoKeyTtl]]
        /\ matchMade = n
    /\ matchCalls = [c \in Callers |-> IdleMatch]

NextMatch ==
    \/ \E c \in Callers : MatchPop(c)
    \/ \E c \in Callers : MatchRead(c)
    \/ \E c \in Callers : MatchHset(c)
    \/ \E c \in Callers : MatchPush(c)
    \/ \E c \in Callers : MatchReturn(c)
    \/ \E c \in Callers : LobbyJoin(c)
    \/ \E id \in MatchIds : LobbyExpire(id)

SpecMatch == InitMatch /\ [][NextMatch]_vars

\* The game routes with the clients' requests served one at a time, and the
\* AI scheduler beside them.
Next ==
    \/ \E r \in Req, code \in Codes : JoinRead(r, NoToken, code)
    \/ \E r \in Req : JoinWrite(r)
    \/ \E r \in Req, kind \in GameKinds, tok \in MintedTokens : Auth(r, kind, tok)
    \/ \E r \in Req : Exists(r)
    \/ \E r \in Req, flip \in BOOLEAN : Load(r, flip)
    \/ \E r \in Req : Resolve(r)
    \/ \E r \in Req : Ensure(r)
    \/ \E r \in Req : ActGet(r)
    \/ \E r \in Req, c \in MoveCells : ActMove(r, c[1], c[2])
    \/ \E r \in Req : ActPass(r)
    \/ \E r \in Req : Return(r)
    \/ \E a \in Ai : TimerFire(a)
    \/ \E a \in Ai : AiMeta(a)
    \/ \E a \in Ai : AiLock(a)
    \/ \E a \in Ai : AiGet(a)
    \/ \E a \in Ai : AiStep(a)
    \/ \E a \in Ai : AiRelease(a)
    \/ LockExpire

Spec == Init /\ [][Next]_vars

\* The game routes with overlapping requests (a room of two players arms no
\* AI timer).
NextRace ==
    \/ \E r \in Req, code \in Codes : JoinRead(r, NoToken, code)
    \/ \E r \in Req : JoinWrite(r)
    \/ \E r \in Req, kind \in GameKinds, tok \in MintedTokens : Auth(r, kind, tok)
    \/ \E r \in Req : Exists(r)
    \/ \E r \in Req, flip \in BOOLEAN : Load(r, flip)
    \/ \E r \in Req : Ensure(r)
    \/ \E r \in Req : ActGet(r)
    \/ \E r \in Req, c \in MoveCells : ActMove(r, c[1], c[2])
    \/ \E r \in Req : ActPass(r)
    \/ \E r \in Req : Return(r)

SpecRace == InitRace /\ [][NextRace]_vars

\* DELETE /room beside the requests that write: admission, GET /game and
\* POST /messages.
NextDestroy ==
    \/ \E r \in Req, code \in Codes : JoinRead(r, NoToken, code)
    \/ \E r \in Req : JoinWrite(r)
    \/ \E r \in Req, kind \in DestroyKinds, tok \in MintedTokens : Auth(r, kind, tok)
    \/ \E r \in Req : Exists(r)
    \/ \E r \in Req, flip \in BOOLEAN : Load(r, flip)
    \/ \E r \in Req : Ensure(r)
    \/ \E r \in Req : ActGet(r)
    \/ \E r \in Req : ChatPush(r)
    \/ \E r \in Req : DestroyRead(r)
    \/ \E r \in Req, k \in {"meta", "messages", "game", "invitePlayer", "inviteSpectator"} :
           DestroyDel(r, k)
    \/ \E r \in Req : Return(r)

SpecDestroy == InitDestroy /\ [][NextDestroy]_vars

\* The same requests served one after the other.
InitDestroySeq ==
    /\ Created(DestroyRooms)
    /\ overlaps = 0

SpecDestroySeq == InitDestroySeq /\ [][NextDestroy]_vars

\* Admission by the middleware, also of visitors that hold a token, with
\* overlapping requests.
NextJoin ==
    \/ \E r \in Req, tok \in MintedTokens \cup {NoToken}, code \in TypedCodes :
           JoinRead(r, tok, code)
    \/ \E r \in Req : JoinWrite(r)
    \/ \E r \in Req : Return(r)

SpecJoin == InitJoin /\ [][NextJoin]_vars

\* Admission by the middleware, also of visitors that hold a token, between
\* GET /game, GET /room/info and POST /messages, while time passes.
NextAdmit ==
    \/ \E r \in Req, tok \in MintedTokens \cup {NoToken}, code \in TypedCodes :
           JoinRead(r, tok, code)
    \/ \E r \in Req : JoinWrite(r)
    \/ \E r \in Req, kind \in AdmitKinds, tok \in MintedTokens : Auth(r, kind, tok)
    \/ \E r \in Req : Exists(r)
    \/ \E r \in Req, flip \in BOOLEAN : Load(r, flip)
    \/ \E r \in Req : Resolve(r)
    \/ \E r \in Req : Ensure(r)
    \/ \E r \in Req : ActGet(r)
    \/ \E r \in Req : ChatPush(r)
    \/ \E r \in Req : Return(r)
    \/ Tick

SpecAdmit == InitAdmit /\ [][NextAdmit]_vars

\* GET /game requests overlap in an AI room whose human color is drawn.
InitAiRace ==
    /\ Created({AiRoom(NearEndA, "normal", "random")})
    /\ overlaps = MaxOverlaps

NextAiRace ==
    \/ \E r \in Req : JoinRead(r, NoToken, NoCode)
    \/ \E r \in Req : JoinWrite(r)
    \/ \E r \in Req, tok \in MintedTokens : Auth(r, "get", tok)
    \/ \E r \in Req : Exists(r)
    \/ \E r \in Req, flip \in BOOLEAN : Load(r, flip)
    \/ \E r \in Req : Resolve(r)
    \/ \E r \in Req : Ensure(r)
    \/ \E r \in Req : ActGet(r)
    \/ \E r \in Req : Return(r)

SpecAiRace == InitAiRace /\ [][NextAiRace]_vars

\* The AI scheduler in the rooms of one human, with calls that throw, beside
\* GET /game, POST /game/move and DELETE /room served one after the other.
AiLoopKinds == {"get", "move", "destroy"}

InitAiLoop ==
    /\ Created({AiRoom(NearEndA, "normal", "black"), AiRoom(NearEndB, "hard", "white")})
    /\ overlaps = 0

NextAiLoop ==
    \/ \E r \in Req : JoinRead(r, NoToken, NoCode)
    \/ \E r \in Req : JoinWrite(r)
    \/ \E r \in Req, kind \in AiLoopKinds, tok \in MintedTokens : Auth(r, kind, tok)
    \/ \E r \in Req : Exists(r)
    \/ \E r \in Req, flip \in BOOLEAN : Load(r, flip)
    \/ \E r \in Req : Resolve(r)
    \/ \E r \in Req : Ensure(r)
    \/ \E r \in Req : ActGet(r)
    \/ \E r \in Req, c \in MoveCells : ActMove(r, c[1], c[2])
    \/ \E r \in Req : DestroyRead(r)
    \/ \E r \in Req, k \in {"meta", "messages", "game"} : DestroyDel(r, k)
    \/ \E r \in Req : Return(r)
    \/ \E a \in Ai : TimerFire(a)
    \/ \E a \in Ai : AiMeta(a)
    \/ \E a \in Ai : AiLock(a)
    \/ \E a \in Ai : AiGet(a)
    \/ \E a \in Ai : AiStep(a)
    \/ \E a \in Ai : AiRelease(a)
    \/ \E a \in Ai : AiThrow(a)
    \/ LockExpire

SpecAiLoop == InitAiLoop /\ [][NextAiLoop]_vars

\* inviteExists: whether invite:player:<code> or invite:spectator:<code>
\* exists; taken is the set of the codes that have a key in the store.
inviteExists(code, taken) == code \in taken

InviteTries == 6

\* generateUniqueInviteCode: draws is the sequence of the codes
\* makeInviteCode() returns, call after call.
RECURSIVE generateUniqueInviteCode(_, _, _)
generateUniqueInviteCode(draws, taken, i) ==
    IF i < InviteTries
    THEN IF ~inviteExists(draws[i + 1], taken) THEN draws[i + 1]
         ELSE generateUniqueInviteCode(draws, taken, i + 1)
    ELSE draws[i + 1]

\* The meta hash of POST /room/create: both codes are generated before the
\* key of either is set, so both are checked against the same keys.
createMeta(playerDraws, spectatorDraws, taken, allowSpectators) ==
    LET playerCode == generateUniqueInviteCode(playerDraws, taken, 0)
        spectatorCode == IF allowSpectators
                         THEN generateUniqueInviteCode(spectatorDraws, taken, 0)
                         ELSE NoCode
    IN  [InviteRoom(NoHandicap) EXCEPT !.inviteCode = playerCode,
                                       !.spectatorCode = spectatorCode,
                                       !.allowSpectators = allowSpectators,
                                       !.spectatorCanViewChat = allowSpectators]

\* The draws of one call of generateUniqueInviteCode: k draws of the code
\* of another room, then the code c.
DrawRuns ==
    {[i \in 1 .. (InviteTries + 1) |-> IF i <= k THEN WrongCode ELSE c] :
        k \in 0 .. (InviteTries + 1), c \in {PlayerCode, SpectatorCode}}

CreateRooms ==
    {createMeta(d1, d2, {WrongCode}, allow) :
        d1 \in DrawRuns, d2 \in DrawRuns, allow \in BOOLEAN}

\* Admissions to a room POST /room/create has just made, whatever codes
\* were drawn for it.
InitCreate ==
    /\ Created(CreateRooms)
    /\ overlaps = 0

SpecCreate == InitCreate /\ [][NextJoin]_vars

\* rooms.ts sanitizeIndices: the indexes of the list that are cells, each
\* once (the handicap lists of the model are sets).
sanitizeIndices(list) == {list[k] : k \in {j \in 1 .. Len(list) : list[j] >= 0 /\ list[j] <= 63}}

\* The handicap lists of the body of POST /room/create: lists that share
\* indexes, name cells of the centre and hold numbers that are no cell.
HandicapBodies ==
    {[black |-> <<0, 27, 64, 9, 0 - 1, 19>>, white |-> <<9, 28, 63, 0, 100, 26>>],
     [black |-> << >>, white |-> <<27, 28, 35, 36, 19, 19>>],
     [black |-> <<36, 35, 44, 200>>, white |-> <<44, 0 - 8, 37, 27>>]}

HandicapRooms ==
    {InviteRoom([black |-> sanitizeIndices(b.black), white |-> sanitizeIndices(b.white)]) :
        b \in HandicapBodies}

\* Games of two players in the rooms of these bodies, requests served one
\* after the other.
InitHandicap ==
    /\ Created(HandicapRooms)
    /\ overlaps = 0

SpecHandicap == InitHandicap /\ [][NextRace]_vars

\* Plays of the two players from the start of the game, move by move.
NextBoard ==
    \/ \E x, y \in 0 .. (SIZE - 1) : PlayMove(x, y)
    \/ PlayPass

SpecBoard == InitBoard /\ [][NextBoard]_vars

(***************************************************************************)
(* Properties                                                              *)
(***************************************************************************)
\* The step of request r that answers a request of kind with ok, and the
\* step that answers it with an error.
Accepted(r, kind) ==
    /\ req[r].pc = "act" /\ req[r].kind = kind
    /\ req'[r].pc = "done" /\ req'[r].res = "ok"

Refused(r, kind) ==
    /\ req[r].pc \notin {"done"}
    /\ req'[r].kind = kind /\ req'[r].pc = "done" /\ req'[r].res # "ok"

\* The step of ensureGame of request r that reads the game key, and the one
\* that writes it.
Loads(r, kind) == req[r].pc = "load" /\ req[r].kind = kind /\ req'[r].pc # "load"

EnsureWrites(r, kind) == req[r].pc = "ensure" /\ req[r].kind = kind /\ req'[r].pc = "act"

\* What ensureGame holds after reading a stored record it is going to write:
\* the record it read was waiting, and it holds it started.
StartsStored(r) ==
    req'[r].dirty /\ game # NoGame =>
        /\ game.status = "waiting"
        /\ req'[r].state.status = "playing" /\ req'[r].state.turn = 1
        /\ req'[r].state.passStreak = 0 /\ req'[r].state.winner = NoWinner
        /\ req'[r].state.board = game.board
        /\ req'[r].state.lastMove = game.lastMove

\* The iteration of aiStepLoop invocation a that persists a state.
AiWrites(a) ==
    ai[a].pc = "loop" /\ ai'[a].pc = "loop" /\ ai'[a].guard = ai[a].guard + 1

\* The moves getLegalMoves lists.
LegalMoveSet(board, player) ==
    {getLegalMoves(board, player)[k] : k \in 1 .. Len(getLegalMoves(board, player))}

NoLegalMoveLeft(board) == ~hasAnyLegalMove(board, 1) /\ ~hasAnyLegalMove(board, 2)

\* C1 as stated: POST /game/move is acknowledged only when the game is
\* playing, the token holds the color to move and the cell is legal; a
\* request that fails has changed nothing of an already stored game record
\* and has published no game.state event.
C1_FailedMoveLeavesStoredGame ==
    \A r \in Req :
        req[r].pc = "done" /\ req[r].kind = "move" =>
            IF req[r].res = "ok"
            THEN /\ req[r].base.status = "playing"
                 /\ req[r].base.turn = mePlayerFromState(req[r].base, req[r].token)
                 /\ <<req[r].x, req[r].y>> \in LegalMoveSet(req[r].base.board, req[r].base.turn)
            ELSE req[r].hadGame => ~req[r].wrote /\ ~req[r].emitted

\* C1 amended: POST /game/move is acknowledged only when the state the
\* request holds after ensureGame is playing, the token holds the color to
\* move in it and the cell is among getLegalMoves for that color; a request
\* that fails writes and publishes nothing from its checks on. The only write
\* of such a request is that of ensureGame: a record that was missing, or the
\* stored waiting record started (playing, black to move, pass counter 0, no
\* winner, board and lastMove as read).
C1_MoveWritesOnlyWhenLegal ==
    [][\A r \in Req :
        /\ Accepted(r, "move") =>
               LET s == req[r].state
                   me == mePlayerFromState(s, req[r].token)
               IN  /\ s.status = "playing" /\ me # 0 /\ s.turn = me
                   /\ <<req'[r].x, req'[r].y>> \in LegalMoveSet(s.board, me)
        /\ Refused(r, "move") =>
               /\ game' = game
               /\ req'[r].emitted = req[r].emitted
               /\ req'[r].wrote = req[r].wrote
        /\ Loads(r, "move") => game' = game /\ StartsStored(r)
        /\ EnsureWrites(r, "move") =>
               /\ game' = req[r].state
               /\ req'[r].emitted = (game'.status = "playing")
      ]_vars

\* A move request that found a waiting record started the game and was then
\* refused for its cell.
C1_Witness ==
    \E r \in Req :
        /\ req[r].pc = "done" /\ req[r].kind = "move"
        /\ req[r].res = "Illegal move"
        /\ req[r].hadGame /\ req[r].wrote
        /\ game # NoGame /\ game.status = "playing"

\* C2: an accepted move of color P at (x, y) stores applyMove of the board,
\* lastMove (x, y, P), pass counter 0 and the opponent to move in a playing
\* game, or a finished game with no turn when the finish conditions hold on
\* the new board. Every board-changing step, human or AI, stores pass
\* counter 0, and only a pass stores a larger one (by one, board unchanged).
C2_AcceptedMoveStores ==
    [][/\ \A r \in Req :
            Accepted(r, "move") =>
                LET old == req[r].state
                    P == mePlayerFromState(old, req[r].token)
                    x == req'[r].x
                    y == req'[r].y
                    nb == applyMove(old.board, x, y, P)
                IN  /\ nb # old.board
                    /\ game'.board = nb
                    /\ game'.lastMove = <<x, y, P>>
                    /\ game'.passStreak = 0
                    /\ IF NoLegalMoveLeft(nb) \/ isBoardFull(nb)
                       THEN game'.status = "finished" /\ game'.turn = NoTurn
                       ELSE game'.status = "playing" /\ game'.turn = opponent(P)
       /\ \A r \in Req :
            Accepted(r, "pass") =>
                /\ game'.board = req[r].state.board
                /\ game'.passStreak = req[r].state.passStreak + 1
       /\ \A a \in Ai :
            AiWrites(a) =>
                IF game'.board # ai[a].state.board
                THEN game'.passStreak = 0
                ELSE /\ game'.passStreak = ai[a].state.passStreak + 1
                     /\ ~hasAnyLegalMove(ai[a].state.board, ai[a].state.turn)
      ]_vars

\* A move was accepted right after a pass: the pass counter went from 1 to 0.
C2_Witness ==
    \E r \in Req :
        /\ req[r].pc = "done" /\ req[r].kind = "move" /\ req[r].res = "ok"
        /\ req[r].base.passStreak = 1
        /\ game # NoGame /\ game.passStreak = 0
        /\ game.lastMove = <<req[r].x, req[r].y, req[r].base.turn>>

\* C3 as stated: POST /game/pass is accepted only when the game is playing,
\* it is the caller's turn and the caller has no legal move; a request that
\* fails leaves the stored state unchanged.
C3_FailedPassLeavesStoredGame ==
    \A r \in Req :
        req[r].pc = "done" /\ req[r].kind = "pass" =>
            IF req[r].res = "ok"
            THEN /\ req[r].base.status = "playing"
                 /\ req[r].base.turn = mePlayerFromState(req[r].base, req[r].token)
                 /\ ~hasAnyLegalMove(req[r].base.board, req[r].base.turn)
            ELSE req[r].hadGame => ~req[r].wrote

\* C3 amended: POST /game/pass is accepted only when the state the request
\* holds after ensureGame is playing, it is the caller's turn in it and the
\* caller's color has no legal move; a request that fails writes nothing
\* from its checks on, its only write being that of ensureGame (a missing
\* record created, or the stored waiting record started). When it is
\* accepted and the opponent has a legal move, the stored state has the turn
\* flipped, the pass counter raised by one to 1, board and lastMove
\* unchanged and status playing.
C3_PassWritesOnlyWhenAllowed ==
    [][\A r \in Req :
        /\ Accepted(r, "pass") =>
               LET s == req[r].state
                   me == mePlayerFromState(s, req[r].token)
               IN  /\ s.status = "playing" /\ me # 0 /\ s.turn = me
                   /\ LegalMoveSet(s.board, me) = {}
                   /\ hasAnyLegalMove(s.board, opponent(me)) =>
                          /\ game' = [s EXCEPT !.turn = opponent(me), !.passStreak = 1]
                          /\ s.passStreak = 0
                          /\ game'.status = "playing"
        /\ Refused(r, "pass") =>
               /\ game' = game
               /\ req'[r].wrote = req[r].wrote
        /\ Loads(r, "pass") => game' = game /\ StartsStored(r)
        /\ EnsureWrites(r, "pass") => game' = req[r].state
      ]_vars

\* A pass was accepted and the game goes on with the opponent to move.
C3_Witness ==
    \E r \in Req :
        /\ req[r].pc = "done" /\ req[r].kind = "pass" /\ req[r].res = "ok"
        /\ game # NoGame /\ game.status = "playing" /\ game.passStreak = 1
        /\ game.turn = opponent(req[r].base.turn)
        /\ hasAnyLegalMove(game.board, game.turn)

\* C4: finished is terminal: while the game record exists, a stored finished
\* state keeps its status, board, turn and winner.
C4_FinishedIsTerminal ==
    [][game # NoGame /\ game.status = "finished" /\ game' # NoGame =>
           /\ game'.status = "finished"
           /\ game'.board = game.board
           /\ game'.turn = NoTurn
           /\ game'.winner = game.winner
      ]_vars

\* C5: in every stored game state, playing goes with a turn of 1 or 2 and no
\* winner, finished with no turn and the winner by disc count (0 on equal
\* counts), waiting with no turn and no winner.
C5_StatusTurnWinner ==
    game # NoGame =>
        LET c == countDiscs(game.board) IN
        /\ game.status \in {"waiting", "playing", "finished"}
        /\ game.status = "playing" => game.turn \in {1, 2} /\ game.winner = NoWinner
        /\ game.status = "finished" =>
               /\ game.turn = NoTurn
               /\ game.winner = IF c.black > c.white THEN 1
                                ELSE IF c.white > c.black THEN 2 ELSE 0
        /\ game.status = "waiting" => game.turn = NoTurn /\ game.winner = NoWinner

\* A game finished in a draw.
C5_Witness ==
    /\ game # NoGame /\ game.status = "finished" /\ game.winner = 0
    /\ countDiscs(game.board).black = countDiscs(game.board).white

\* One of the three ways a game finishes holds of state g.
FinishPath(g) ==
    \/ g.passStreak >= 2
    \/ NoLegalMoveLeft(g.board)
    \/ isBoardFull(g.board)

\* C6: every stored finished state has pass counter 2, or no legal move for
\* either color, or a full board; and the state an accepted move or pass,
\* human or AI, stores is finished whenever one of the three holds of it.
C6_FinishPaths ==
    [][/\ game' # NoGame /\ game'.status = "finished" => FinishPath(game')
       /\ (\/ \E r \in Req : Accepted(r, "move") \/ Accepted(r, "pass")
           \/ \E a \in Ai : AiWrites(a))
          => (FinishPath(game') => game'.status = "finished")
      ]_vars

\* A game finished with an empty cell left and no legal move for either color.
C6_Witness ==
    /\ game # NoGame /\ game.status = "finished"
    /\ ~isBoardFull(game.board) /\ game.passStreak < 2
    /\ NoLegalMoveLeft(game.board)
    /\ game.lastMove # NoMove

\* aiStepLoop invocation a is between its lock acquisition and its release.
HoldsAiLock(a) == ai[a].pc \in {"get", "loop"}

\* C7: no two aiStepLoop invocations of the room are both between their
\* lock acquisition and their lock release.
C7_AiStepsExclusive ==
    \A a1, a2 \in Ai : HoldsAiLock(a1) /\ HoldsAiLock(a2) => a1 = a2

\* C8: of two move requests made for the same turn of the same state, at
\* most one is acknowledged with ok.
C8_OneMovePerTurn ==
    \A r1, r2 \in Req :
        /\ req[r1].pc = "done" /\ req[r1].kind = "move" /\ req[r1].res = "ok"
        /\ req[r2].pc = "done" /\ req[r2].kind = "move" /\ req[r2].res = "ok"
        /\ req[r1].base = req[r2].base
        => r1 = r2

\* C9: of two concurrent destroy requests, exactly one is acknowledged with
\* ok; the other fails as the room is gone.
C9_OneDestroyAcknowledged ==
    \A r1, r2 \in Req :
        /\ req[r1].pc = "done" /\ req[r1].kind = "destroy" /\ req[r1].res = "ok"
        /\ req[r2].pc = "done" /\ req[r2].kind = "destroy"
        /\ r1 # r2
        => req[r2].res # "ok"

\* C10: once a DELETE is acknowledged, the game key and the messages key of
\* the room are gone and no request still in flight creates either again.
C10_NoKeyAfterDestroy ==
    [][(\E r \in Req : req[r].pc = "done" /\ req[r].kind = "destroy" /\ req[r].res = "ok")
       => /\ game = NoGame => game' = NoGame
          /\ messages = 0 => messages' = 0
      ]_vars

\* The tokens of a list are pairwise different.
NoRepeat(seq) == \A i, j \in 1 .. Len(seq) : seq[i] = seq[j] => i = j

\* C11: a request to /room/<id> whose cookie holds a token of the players or
\* the spectators list is let through at once, whatever code it presents and
\* however often it comes, and neither list nor any TTL changes; no token is
\* twice in a list and none is in both lists.
C11_AdmissionIdempotent ==
    /\ [](/\ NoRepeat(meta.players) /\ NoRepeat(meta.spectators)
          /\ Range(meta.players) \cap Range(meta.spectators) = {})
    /\ [][\A r \in Req, tok \in MintedTokens, code \in TypedCodes :
            (/\ req[r].pc = "idle" /\ req'[r].kind = "join"
             /\ tok \in Range(meta.players) \cup Range(meta.spectators)
             /\ JoinRead(r, tok, code))
            => /\ req'[r].pc = "done" /\ req'[r].res = "next"
               /\ meta' = meta
               /\ ttl' = ttl
         ]_vars

\* A token holder has been let through again while the room had a player
\* and a spectator.
C11_Witness ==
    /\ \E r \in Req : req[r].pc = "done" /\ req[r].kind = "join" /\ req[r].res = "next"
    /\ Len(meta.players) >= 1
    /\ Len(meta.spectators) >= 1

\* The step of request r in which the middleware decides about a visitor
\* that holds no token of the room.
Decides(r) ==
    /\ req[r].pc = "idle" /\ req'[r].kind = "join"
    /\ meta.present
    /\ req'[r].res # "next"

\* The decision of that step: the role of the admitted visitor or the error
\* of the redirect.
Decision(r) == IF req'[r].pc = "hset" THEN req'[r].role ELSE req'[r].res

\* C12: a room never has more than 2 players (1 in an AI room) nor more than
\* SPECTATOR_CAPACITY spectators, a match room and an AI room have no
\* spectator, and an admission redirected with room-full or spectator-full
\* leaves both lists as they are.
C12_CapacityNeverExceeded ==
    /\ [](/\ Len(meta.players) <= (IF meta.pve \/ meta.mode = "ai" THEN 1 ELSE 2)
          /\ Len(meta.spectators) <= SPECTATOR_CAPACITY
          /\ meta.mode \in {"match", "ai"} => meta.spectators = << >>)
    /\ [][\A r \in Req :
            Decides(r) /\ Decision(r) \in {"room-full", "spectator-full"}
            => /\ req'[r].pc = "done"
               /\ meta' = meta
               /\ Decision(r) = "room-full"
                  => Len(meta.players) >= (IF meta.pve \/ meta.mode = "ai" THEN 1 ELSE 2)
               /\ Decision(r) = "spectator-full"
                  => Len(meta.spectators) >= SPECTATOR_CAPACITY
         ]_vars

\* A third visitor with the player code has been redirected with room-full.
C12_Witness ==
    /\ \E r \in Req : req[r].pc = "done" /\ req[r].kind = "join" /\ req[r].res = "room-full"
    /\ meta.mode = "invite"
    /\ Len(meta.players) = 2

\* What the invite room m answers a new visitor that presents the code
\* provided (trimmed and in upper case).
InviteTable(m, provided) ==
    IF provided = NoCode
    THEN IF m.players = << >> THEN "player" ELSE "invite-code-required"
    ELSE IF provided = m.inviteCode
    THEN IF Len(m.players) >= 2 THEN "room-full" ELSE "player"
    ELSE IF provided = m.spectatorCode /\ m.allowSpectators
    THEN IF Len(m.spectators) >= SPECTATOR_CAPACITY THEN "spectator-full" ELSE "spectator"
    ELSE "code-invalid"

\* C13: in an invite room a new visitor without a code becomes a player if
\* and only if there is no player yet and is otherwise redirected with
\* invite-code-required; with the player code it becomes a player unless
\* there are 2 already; with the spectator code, spectators allowed, it
\* becomes a spectator unless the spectators are full; with any other code
\* it is redirected with code-invalid; a redirected visitor is in no list.
C13_InviteDecision ==
    [][\A r \in Req, code \in TypedCodes :
        (/\ Decides(r)
         /\ meta.mode = "invite"
         /\ \E tok \in MintedTokens \cup {NoToken} : JoinRead(r, tok, code))
        => /\ Decision(r) = InviteTable(meta, normalizeInviteCode(code))
           /\ meta' = meta
           /\ Decision(r) \notin {"player", "spectator"}
              => /\ req'[r].pc = "done"
                 /\ req'[r].token = NoToken
     ]_vars

\* A visitor that presented the spectator code is being admitted
\* as spectator to a room that has a player.
C13_Witness ==
    \E r \in Req :
        /\ req[r].pc = "hset" /\ req[r].role = "spectator"
        /\ Len(req[r].ameta.players) >= 1
        /\ meta.mode = "invite"

\* The step in which the hset of the admission of request r reaches the
\* store, and whether that admission adds the player that makes the room
\* playable: the second one, or the first one of an AI room.
Admits(r) == req[r].pc = "hset" /\ req'[r].pc = "done"

MakesPlayable(r) ==
    /\ req[r].role = "player"
    /\ Len(req[r].ameta.players) = (IF req[r].ameta.pve THEN 0 ELSE 1)

RoomKeys == {"meta", "game", "messages", "invitePlayer", "inviteSpectator"}

\* C14: the admission that makes a room playable leaves meta, game, messages
\* and the invite-code keys without expiry when the room's ttlSeconds is
\* null, and otherwise sets every one of them that exists to expire after
\* the room's ttlSeconds; an admission that does not make the room playable
\* applies that countdown to no key.
C14_PlayableSwitchesKeys ==
    [][\A r \in Req :
        Admits(r) =>
            LET configured == req[r].ameta.ttlSeconds IN
            /\ ttl'.meta # NoKeyTtl
            /\ \A k \in RoomKeys \ {"meta"} : ttl'[k] = NoKeyTtl <=> ttl[k] = NoKeyTtl
            /\ MakesPlayable(r) /\ configured = TtlNull
               => \A k \in RoomKeys : ttl'[k] \in {NoExpiry, NoKeyTtl}
            /\ MakesPlayable(r) /\ configured # TtlNull
               => \A k \in RoomKeys : ttl'[k] \in {configured, NoKeyTtl}
            /\ ~MakesPlayable(r)
               => /\ \A k \in RoomKeys \ {"meta"} : ttl'[k] = ttl[k]
                  /\ ttl'.meta \in {ttl.meta, WAITING_ROOM_TTL_SECONDS}
     ]_vars

\* The second player has been admitted, after some time, to a room with a
\* countdown of its own whose game and messages keys exist: all five keys
\* count down from it.
C14_Witness ==
    /\ \E r \in Req : req[r].pc = "done" /\ req[r].kind = "join" /\ req[r].res = "ok"
    /\ Len(meta.players) = 2
    /\ meta.ttlSeconds \notin {TtlNull, ROOM_TTL_SECONDS}
    /\ ticks >= 1
    /\ \A k \in RoomKeys : ttl[k] = meta.ttlSeconds

C16_AiTurnNotAbandoned ==
    (/\ meta.pve
     /\ game # NoGame /\ game.status = "playing"
     /\ game.whiteToken = AI_TOKEN /\ game.turn = 2
     /\ game.lastMove # NoMove /\ game.lastMove[3] = 1)
    => \/ aiTimer.armed
       \/ \E a \in Ai : ai[a].pc # "idle"
       \/ \E r \in Req : InFlight(r)

\* The game states a response or an event is made of: the one a request
\* holds after ensureGame and the one aiStepLoop holds.
HeldStates ==
    {req[r].state : r \in {r2 \in Req : req[r2].pc = "act"}}
    \cup {ai[a].state : a \in {a2 \in Ai : ai[a2].pc = "loop" /\ ai[a2].state # NoGame}}

\* C17: the public projection of a game state has the fields board, status,
\* turn, passStreak, winner, blackCount, whiteCount and lastMove and no
\* other, and it is the same for two states that differ in blackToken and
\* whiteToken only.
C17_ProjectionHidesTokens ==
    \A g \in HeldStates :
        LET p == publicGameState(g) IN
        /\ DOMAIN p = {"board", "status", "turn", "passStreak", "winner",
                       "blackCount", "whiteCount", "lastMove"}
        /\ \A b, w \in MintedTokens \cup {AI_TOKEN, NoToken} :
               publicGameState([g EXCEPT !.blackToken = b, !.whiteToken = w]) = p

\* GET /game is about to answer with a game both of whose colors are bound
\* to tokens.
C17_Witness ==
    \E r \in Req :
        /\ req[r].pc = "act" /\ req[r].kind = "get"
        /\ req[r].state.status = "playing"
        /\ req[r].state.blackToken # NoToken
        /\ req[r].state.whiteToken # NoToken

\* C18: the result of GET /room/info for a caller whose role is spectator
\* holds neither the player invite code nor the spectator invite code.
C18_InfoCodesForPlayersOnly ==
    \A r \in Req :
        (/\ req[r].pc = "done" /\ req[r].kind = "info" /\ req[r].res = "ok"
         /\ req[r].info.role = "spectator")
        => /\ req[r].info.inviteCode = NoCode
           /\ req[r].info.spectatorCode = NoCode

\* The standard start position with the handicap of room m on its empty
\* cells.
StartBoard(m) ==
    [i \in Cells |->
        IF createInitialBoard[i] # 0 THEN createInitialBoard[i]
        ELSE IF i \in m.handicap.black THEN 1
        ELSE IF i \in m.handicap.white THEN 2
        ELSE 0]

\* C19: a call that loads the game of a room without game record holds,
\* stores and answers with a new record: waiting with no turn when the
\* players are fewer than the threshold (2, or 1 in an AI room), else
\* playing with black to move; passStreak 0, no winner, no last move and the
\* start position with the room's handicap in both cases.
C19_BootstrapInOneCall ==
    [][\A r \in Req :
        /\ (req[r].pc = "load" /\ req'[r].pc # "load" /\ game = NoGame)
           => LET st == req'[r].state
                  m == req[r].ameta
                  playable == Len(m.players) >= (IF m.pve THEN 1 ELSE 2)
              IN  /\ req'[r].pc \in {"resolve", "ensure"}
                  /\ st.board = StartBoard(m)
                  /\ st.passStreak = 0 /\ st.winner = NoWinner /\ st.lastMove = NoMove
                  /\ ~playable => st.status = "waiting" /\ st.turn = NoTurn
                  /\ playable => st.status = "playing" /\ st.turn = 1
        /\ (req[r].pc = "ensure" /\ req'[r].pc # "ensure" /\ ~req[r].hadGame)
           => /\ game' = req[r].state
              /\ req'[r].pc = "act" /\ req'[r].state = req[r].state
        /\ (req[r].pc = "act" /\ req[r].kind = "get" /\ req'[r].pc # "act")
           => req'[r].res = "ok"
     ]_vars

\* GET /game has stored the first record of a room with a handicap and
\* enough players, and is about to answer with it.
C19_Witness ==
    \E r \in Req :
        /\ req[r].pc = "act" /\ req[r].kind = "get"
        /\ ~req[r].hadGame /\ req[r].wrote
        /\ req[r].state.status = "playing"
        /\ game = req[r].state
        /\ meta.handicap.black # {}

\* Cell c lies on a run of discs of the opponent of player that starts next
\* to (x, y) in direction d and ends on a disc of player.
OnClosedRun(board, x, y, player, d, c) ==
    \E n \in 2 .. (SIZE - 1) :
        /\ inBounds(x + n * d[1], y + n * d[2])
        /\ board[idx(x + n * d[1], y + n * d[2])] = player
        /\ \A j \in 1 .. (n - 1) : board[idx(x + j * d[1], y + j * d[2])] = opponent(player)
        /\ \E j \in 1 .. (n - 1) : c = idx(x + j * d[1], y + j * d[2])

\* C20: a legal move of player P at (x, y) gives a board on which (x, y)
\* holds P, every disc of the opponent on a run that starts next to (x, y)
\* in one of the 8 directions and ends on a disc of P holds P, and every
\* other cell is as before; the board has one disc more.
C20_ApplyMoveFlipsRuns ==
    [][game # NoGame /\ game' # NoGame /\ game'.board # game.board /\ game'.lastMove # NoMove
       => LET x == game'.lastMove[1]
              y == game'.lastMove[2]
              P == game'.lastMove[3]
              old == game.board
              new == game'.board
          IN  /\ isLegalMove(old, x, y, P)
              /\ new = applyMove(old, x, y, P)
              /\ old[idx(x, y)] = 0 /\ new[idx(x, y)] = P
              /\ \A c \in Cells \ {idx(x, y)} :
                     new[c] = IF \E k \in 1 .. Len(DIRS) : OnClosedRun(old, x, y, P, DIRS[k], c)
                              THEN P ELSE old[c]
              /\ countDiscs(new).black + countDiscs(new).white
                     = countDiscs(old).black + countDiscs(old).white + 1
     ]_vars

\* A move has turned discs in two directions at once, one of them on the
\* edge of the board.
C20_Witness ==
    /\ game # NoGame /\ game.lastMove # NoMove
    /\ game.lastMove[1] = 7
    /\ Cardinality({k \in 1 .. Len(DIRS) :
            /\ inBounds(game.lastMove[1] + DIRS[k][1], game.lastMove[2] + DIRS[k][2])
            /\ game.board[idx(game.lastMove[1] + DIRS[k][1], game.lastMove[2] + DIRS[k][2])]
                   = game.lastMove[3]}) >= 2

\* The iteration of aiStepLoop invocation a that persists a pass.
AiPasses(a) ==
    /\ AiWrites(a)
    /\ Len(getLegalMoves(ai[a].state.board, ai[a].state.turn)) = 0

\* C24: the pass counter of every stored game record is 0 or 1, and a
\* stored record that is playing with counter 1 has a legal move for the
\* player to move; every accepted pass, of a player or of the AI, acts on a
\* state whose counter is 0 and stores counter 1, so no two accepted passes
\* follow each other and a game that ends on a pass ends with counter 1.
C24_PassStreakAtMostOne ==
    /\ [](game # NoGame =>
            /\ game.passStreak \in {0, 1}
            /\ game.status = "playing" /\ game.passStreak = 1 =>
                   hasAnyLegalMove(game.board, game.turn))
    /\ [][/\ \A r \in Req :
                Accepted(r, "pass") =>
                    /\ req[r].state.passStreak = 0
                    /\ Len(getLegalMoves(req[r].state.board, req[r].state.turn)) = 0
                    /\ game'.passStreak = 1
                    /\ game'.status = "playing" =>
                           hasAnyLegalMove(game'.board, game'.turn)
          /\ \A a \in Ai :
                AiPasses(a) => ai[a].state.passStreak = 0 /\ game'.passStreak = 1]_vars

\* A player's pass was accepted and ended the game: the stored record is
\* finished with pass counter 1.
C24_Witness ==
    /\ game # NoGame /\ game.status = "finished" /\ game.passStreak = 1
    /\ \E r \in Req : req[r].pc = "done" /\ req[r].kind = "pass" /\ req[r].res = "ok"

\* C22: a call of POST /room/match pops at most MatchTries entries; the
\* entry it has popped is returned exactly when its hash exists, is of mode
\* match and lists fewer than 2 players, and else the call goes on; it makes
\* a room only after the list was found empty or MatchTries entries were
\* unusable; the room made has no players and no spectators, mode match and
\* the waiting countdown, and is appended to the list and returned. The
\* list changes only by a pop of its head and by the append of a room made
\* by the same call, which was never in the list before.
C22_MatchPopsAndCreates ==
    /\ [](\A c \in Callers :
            /\ matchCalls[c].i <= MatchTries
            /\ Len(matchCalls[c].popped) <= MatchTries
            /\ Range(matchCalls[c].popped) \cap Range(queue) = {}
            /\ \A id \in Range(queue) \cup Range(matchCalls[c].popped) : id <= matchMade)
    /\ [][\A c \in Callers :
            LET q == matchCalls[c]
                q2 == matchCalls'[c]
            IN  /\ q.pc = "read" /\ q2.pc # "read" =>
                    LET m == lobby[q.candidate].meta IN
                    /\ q.candidate = q.popped[Len(q.popped)]
                    /\ IF m.present /\ m.mode = "match" /\ Len(m.players) < 2
                       THEN q2.pc = "done" /\ q2.res = q.candidate
                       ELSE q2.pc \in {"pop", "create"} /\ q2.res = NoRoomId
                /\ q.pc # "create" /\ q2.pc = "create" =>
                    \/ q.pc \in {"idle", "pop"} /\ queue = << >>
                    \/ q.pc = "read" /\ Len(q.popped) = MatchTries
                /\ q.pc = "create" /\ q2.pc # "create" =>
                    /\ q2.pc = "push" /\ q2.roomId = matchMade'
                    /\ matchMade' = matchMade + 1
                    /\ lobby'[q2.roomId] =
                           [meta |-> [NoMeta EXCEPT !.present = TRUE, !.mode = "match",
                                                    !.ttlSeconds = ROOM_TTL_SECONDS],
                            ttl |-> WAITING_ROOM_TTL_SECONDS]
                /\ q.pc = "push" /\ q2.pc # "push" =>
                    /\ q2.pc = "done" /\ q2.res = q.roomId
                    /\ queue' = Append(queue, q.roomId)
                    /\ \A c2 \in Callers : q.roomId \notin Range(matchCalls[c2].popped)
                    /\ q.roomId \notin Range(queue)]_vars
    /\ [][queue' # queue =>
            \E c \in Callers :
                \/ /\ matchCalls[c].pc \in {"idle", "pop"} /\ matchCalls'[c].pc = "read"
                   /\ queue' = Tail(queue)
                   /\ matchCalls'[c].popped = Append(matchCalls[c].popped, Head(queue))
                \/ /\ matchCalls[c].pc = "push"
                   /\ queue' = Append(queue, matchCalls[c].roomId)]_vars

\* A call has popped MatchTries entries, all unusable, while the list held
\* more, and has made a room, appended it behind what was left and returned it.
C22_Witness ==
    \E c \in Callers :
        /\ matchCalls[c].pc = "done"
        /\ Len(matchCalls[c].popped) = MatchTries
        /\ matchCalls[c].res = matchCalls[c].roomId /\ matchCalls[c].roomId # NoRoomId
        /\ Len(queue) >= 2
        /\ queue[Len(queue)] = matchCalls[c].roomId

\* C23: DELETE /room of a caller that is listed as a spectator and not as a
\* player is answered with the forbidden error in the step that
\* authenticates it: that step deletes no key of the room, changes no
\* countdown and publishes no chat.destroy event; only requests of players
\* get to the deletions.
C23_SpectatorDestroyForbidden ==
    /\ [](\A r \in Req :
            req[r].kind = "destroy" /\ req[r].pc \in {"readmeta", "del"} =>
                req[r].role = "player" /\ req[r].token \in Range(req[r].ameta.players))
    /\ [][\A r \in Req, tok \in MintedTokens :
            /\ req[r].pc = "idle" /\ req'[r].kind = "destroy"
            /\ meta.present
            /\ tok \in Range(meta.spectators) /\ tok \notin Range(meta.players)
            /\ Auth(r, "destroy", tok)
            => /\ req'[r].pc = "done" /\ req'[r].res = "forbidden"
               /\ ~req'[r].emitted /\ req'[r].pending = {}
               /\ UNCHANGED <<meta, game, messages, invite, ttl>>]_vars

\* A spectator's DELETE /room has been refused and the room is still there.
C23_Witness ==
    \E r \in Req :
        /\ req[r].pc = "done" /\ req[r].kind = "destroy" /\ req[r].res = "forbidden"
        /\ meta.present /\ Len(meta.spectators) >= 1

\* C25: once a room whose ttlSeconds is null has two players and a meta key
\* without expiry, no step gives the meta key an expiry again.
C25_PersistentStaysPersistent ==
    [][/\ meta.present /\ meta.ttlSeconds = TtlNull
       /\ Len(meta.players) >= 2
       /\ ttl.meta = NoExpiry
       => ttl'.meta = NoExpiry]_vars

\* C26: from one stored game record of a room to the next, every occupied
\* cell stays occupied (so the number of discs does not go down), whichever
\* request or aiStepLoop invocation writes.
C26_NoStoredUpdateLost ==
    [][game # NoGame /\ game' # NoGame =>
          \A i \in Cells : game.board[i] # 0 => game'.board[i] # 0]_vars

\* C27: a token that is in the stored players or spectators list of the
\* room is still in one of the two lists after every step that leaves the
\* room in place, whatever admissions overlap.
C27_TokenListsOnlyGrow ==
    [][meta.present /\ meta'.present =>
          \A tok \in Range(meta.players) \cup Range(meta.spectators) :
              tok \in Range(meta'.players) \cup Range(meta'.spectators)]_vars

\* C28: once humanPlaysResolved has been written to the meta hash of an AI
\* room it keeps its value while the room is there, and a stored game record
\* that names the AI binds the human token to that color.
C28_HumanColorPinned ==
    /\ [][meta.present /\ meta'.present /\ meta.humanPlaysResolved \in {"black", "white"}
            => meta'.humanPlaysResolved = meta.humanPlaysResolved]_vars
    /\ [](meta.present /\ meta.pve /\ game # NoGame /\ game.status # "waiting"
          /\ meta.humanPlaysResolved \in {"black", "white"}
            => IF meta.humanPlaysResolved = "black"
               THEN game.whiteToken = AI_TOKEN /\ game.blackToken \in Range(meta.players)
               ELSE game.blackToken = AI_TOKEN /\ game.whiteToken \in Range(meta.players))

\* The number of players from which the room of meta hash m is playable.
Threshold(m) == IF m.pve THEN 1 ELSE 2

\* C29 as stated: whenever no admission is in flight, a stored game record
\* of a room that lists at least the threshold number of players is playing
\* or finished.
C29_PlayableNeverStoredWaiting ==
    (/\ \A r \in Req : req[r].kind # "join"
     /\ meta.present /\ game # NoGame
     /\ Len(meta.players) >= Threshold(meta))
    => game.status \in {"playing", "finished"}

\* C29 amended: the admission leaves the game record as it is; the start is
\* made by ensureGame, at the first load of the game by a request whose
\* authentication saw the threshold number of players: the state such a
\* request holds after ensureGame is playing or finished, and when ensureGame
\* has returned to it the stored record is playing or finished too.
C29_StartsAtNextLoad ==
    /\ [](\A r \in Req :
            req[r].pc = "act" /\ Len(req[r].ameta.players) >= Threshold(req[r].ameta)
                => req[r].state.status \in {"playing", "finished"})
    /\ [][\A r \in Req :
            /\ req[r].pc = "hset" /\ req'[r].pc # "hset" => game' = game
            /\ req[r].pc \in {"load", "ensure"} /\ req'[r].pc = "act"
               /\ Len(req[r].ameta.players) >= Threshold(req[r].ameta)
                  => game' # NoGame /\ game'.status \in {"playing", "finished"}]_vars

\* A request has loaded a waiting record that was stored before the room
\* became playable, and has stored it started.
C29_Witness ==
    \E r \in Req :
        /\ req[r].pc = "act" /\ req[r].hadGame /\ req[r].startedNow /\ req[r].wrote
        /\ game # NoGame /\ game.status = "playing"
        /\ Len(meta.players) = 2

\* C30: in a room of two players a playing game record binds black and
\* white to the two different tokens players[0] and players[1]; and wherever
\* a request is about to load the game and start it (no record stored yet,
\* or a waiting record stored before the second player joined), the load
\* can give black to players[0] and can give black to players[1].
C30_ColorsByCoinFlip ==
    /\ (/\ meta.present /\ ~meta.pve /\ Len(meta.players) >= 2
        /\ game # NoGame /\ game.status = "playing")
       => /\ game.blackToken # game.whiteToken
          /\ {game.blackToken, game.whiteToken} = {meta.players[1], meta.players[2]}
    /\ \A r \in Req :
          (/\ req[r].pc = "load"
           /\ ~req[r].ameta.pve /\ Len(req[r].ameta.players) >= 2
           /\ game = NoGame \/ game.status = "waiting")
          => \A k \in {1, 2} :
                ENABLED (\E flip \in BOOLEAN :
                            /\ Load(r, flip)
                            /\ req'[r].state.status = "playing"
                            /\ req'[r].state.blackToken = req[r].ameta.players[k])

\* C31: every stored game record that is playing has a board that is not
\* full and on which at least one of the two colors has a legal move.
C31_PlayingHasMove ==
    game # NoGame /\ game.status = "playing" =>
        /\ ~isBoardFull(game.board)
        /\ hasAnyLegalMove(game.board, 1) \/ hasAnyLegalMove(game.board, 2)

\* C32: the step in which an aiStepLoop invocation deletes the lock key
\* removes no lock key that another invocation has set: when the key exists
\* at that step it is the one the invocation set itself.
C32_ReleasesOwnLockOnly ==
    [][\A a \in Ai :
          ai[a].pc = "loop" /\ ai'[a].pc = "idle" /\ aiLock => ai[a].owns]_vars

\* C33: an aiStepLoop invocation that has set the lock key ends only by a step
\* that deletes the key, whatever makes it end (no game record, the loop left,
\* a call that throws); an invocation that ends before it has set the key (the
\* room is no AI room, or the key is taken) ends without a write of the game
\* record, of a TTL or of the lock key.
C33_LockDeletedOnEveryExit ==
    [][\A a \in Ai :
          /\ ai[a].pc \in {"get", "loop"} /\ ai'[a].pc = "idle" => ~aiLock'
          /\ ai[a].pc \in {"meta", "lock"} /\ ai'[a].pc = "idle" =>
                 UNCHANGED <<game, aiLock, ttl, meta, messages>>]_vars

\* An invocation holds the lock and has found no game record, while another
\* one is about to read the meta of the destroyed room.
C33_Witness ==
    \E a, b \in Ai :
        /\ ai[a].pc = "loop" /\ ai[a].state = NoGame /\ ai[a].owns
        /\ ai[b].pc = "meta" /\ ~meta.present

\* C34: an invite room created with spectators allowed has a spectator code
\* that differs from its player code, and a visitor that presents the
\* spectator code is never taken for a player.
C34_SpectatorCodeDiffers ==
    meta.present /\ meta.mode = "invite" /\ meta.allowSpectators =>
        /\ meta.spectatorCode # meta.inviteCode
        /\ \A code \in TypedCodes :
               normalizeInviteCode(code) = meta.spectatorCode =>
                   joinDecision(meta, code) \notin {"player", "room-full"}

\* C35: at most one timeout of a room is pending at any time, and it is the
\* one aiTimers holds; an aiStepLoop invocation starts only when that timeout
\* fires, and the firing leaves no entry and no timeout behind, so the arms
\* since the last firing start one invocation.
C35_OneTimerPerRoom ==
    /\ [](aiTimer.orphans = 0)
    /\ [][\A a \in Ai :
             ai[a].pc = "idle" /\ ai'[a].pc = "meta" =>
                 aiTimer.armed /\ aiTimer' = NoTimer]_vars

\* GET /game has armed the timer of an AI room whose game an earlier
\* GET /game had started and armed the timer for, and the AI has not moved
\* in between.
C35_Witness ==
    /\ meta.pve /\ aiTimer.armed
    /\ \A a \in Ai : ai[a].pc = "idle"
    /\ game # NoGame /\ game.status = "playing" /\ game.lastMove = NoMove
    /\ isAiTurn(game, meta)
    /\ \E r \in Req : req[r].pc = "done" /\ req[r].kind = "get" /\ req[r].hadGame

\* Whether the color to move in state is held by the AI while the game is on.
AiToMove(state) ==
    /\ state # NoGame /\ state.status = "playing"
    /\ \/ state.turn = 1 /\ state.blackToken = AI_TOKEN
       \/ state.turn = 2 /\ state.whiteToken = AI_TOKEN

\* C36: an aiStepLoop invocation runs at most 6 iterations; it runs no
\* iteration from a state that is not playing or in which the AI is not to
\* move; and every state it stores is the AI's transition of a playing state
\* with the AI to move.
C36_AiLoopBounded ==
    /\ [](\A a \in Ai : ai[a].guard <= 6)
    /\ [][\A a \in Ai :
             /\ ai[a].pc = "loop" /\ ~AiToMove(ai[a].state) =>
                    ai'[a].guard = ai[a].guard \/ ai'[a].pc = "idle"
             /\ ai[a].pc = "loop" /\ ai'[a].guard = ai[a].guard + 1 =>
                    /\ AiToMove(ai[a].state)
                    /\ ai[a].guard < 6
                    /\ game' = aiTransition(ai[a].state, ai[a].ameta.aiLevel)]_vars

\* An invocation has stored a move or a pass of the AI and finds the game
\* finished or the human to move.
C36_Witness ==
    \E a \in Ai :
        /\ ai[a].pc = "loop" /\ ai[a].guard >= 1
        /\ ~AiToMove(ai[a].state)
        /\ game = ai[a].state

\* C37: the board of a game nobody has moved or passed in is the standard
\* start position with the handicap on top. For each body of POST
\* /room/create the room may come from: the centre holds white on 27 and 36
\* and black on 28 and 35; any other cell named in the black list is black;
\* any other cell named in the white list only is white; the rest is empty;
\* numbers of the lists that are no cell change nothing.
C37_InitialBoardIsStampedStart ==
    game # NoGame /\ game.lastMove = NoMove /\ game.passStreak = 0 =>
        \A b \in HandicapBodies :
            meta.handicap = [black |-> sanitizeIndices(b.black),
                             white |-> sanitizeIndices(b.white)] =>
                \A i \in Cells :
                    game.board[i] =
                        IF i \in {27, 36} THEN 2
                        ELSE IF i \in {28, 35} THEN 1
                        ELSE IF \E k \in 1 .. Len(b.black) : b.black[k] = i THEN 1
                        ELSE IF \E k \in 1 .. Len(b.white) : b.white[k] = i THEN 2
                        ELSE 0

\* The game has started in a room whose lists share the cells 0 and 9, name
\* the centre cells 27 and 28 and hold 64, -1 and 100.
C37_Witness ==
    /\ game # NoGame /\ game.status = "playing" /\ game.lastMove = NoMove
    /\ meta.handicap.black = {0, 27, 9, 19}
    /\ meta.handicap.white = {9, 28, 63, 0, 26}

\* The calls of POST /room/match that have answered with room id, and those
\* of them that have made the room.
ReturnedBy(id) ==
    {c \in Callers : matchCalls[c].pc \in {"done", "returned"} /\ matchCalls[c].res = id}

MadeBy(id) == {c \in Callers : matchCalls[c].roomId = id}

\* C38: a room id is the answer of the call that made the room and of at
\* most one call that popped it (a room an earlier call left in the queue is
\* the answer of at most one of the calls that run), whatever the calls'
\* interleaving; the queue holds no id twice, and every id in it is one a
\* call has made a room of mode match for.
C38_RoomReturnedAtMostTwice ==
    /\ \A id \in MatchIds :
          /\ Cardinality(MadeBy(id)) <= 1
          /\ Cardinality(ReturnedBy(id) \ MadeBy(id)) <= 1
    /\ NoRepeat(queue)
    /\ \A k \in 1 .. Len(queue) :
          /\ queue[k] \in 1 .. matchMade
          /\ lobby[queue[k]].meta.present => lobby[queue[k]].meta.mode = "match"

\* A call has made a room and answered with it, and another call, running
\* beside it, has popped that room and answered with it too.
C38_Witness ==
    \E id \in MatchIds : \E c1, c2 \in Callers :
        /\ c1 # c2
        /\ c1 \in MadeBy(id) /\ c1 \in ReturnedBy(id)
        /\ c2 \in ReturnedBy(id) /\ matchCalls[c2].pc = "done" /\ matchCalls[c1].pc = "done"

\* C39: the hset step of an admission that does not make the room playable
\* leaves the countdown of the meta key as it is when it is positive and sets
\* it to 3600 seconds otherwise (no expiry, or the key was gone); it leaves
\* the countdowns of the game, messages and invite-code keys alone.
C39_WaitingJoinTouchesMetaOnly ==
    [][\A r \in Req :
          (/\ req[r].pc = "hset" /\ req'[r].pc = "done"
           /\ ~(IF req[r].ameta.pve
                THEN req[r].role = "player" /\ Len(req[r].ameta.players) = 0
                ELSE req[r].role = "player" /\ Len(req[r].ameta.players) = 1))
          => /\ ttl'.meta = IF ttl.meta > 0 THEN ttl.meta ELSE 3600
             /\ ttl'.game = ttl.game /\ ttl'.messages = ttl.messages
             /\ ttl'.invitePlayer = ttl.invitePlayer
             /\ ttl'.inviteSpectator = ttl.inviteSpectator]_vars

\* A spectator has been admitted to a started room without countdown: the
\* meta key has got 3600 seconds, the invite-code keys still have no expiry.
C39_Witness ==
    /\ meta.present /\ Len(meta.players) = 2 /\ Len(meta.spectators) >= 1
    /\ meta.ttlSeconds = TtlNull
    /\ ttl.meta = 3600 /\ ttl.invitePlayer = NoExpiry /\ ttl.inviteSpectator = NoExpiry
    /\ \E r \in Req : req[r].pc = "done" /\ req[r].kind = "join" /\ req[r].res = "ok"

\* C40: in every stored record with a last move, the cell of the last move
\* holds the disc of the player who made it; while the game is on, the player
\* to move is the opponent of that player when passStreak is 0 and that
\* player when passStreak is 1; and the record a pass stores, of a player or
\* of the AI, has the board and the last move of the state the pass was
\* made in.
C40_LastMoveMatchesBoardAndTurn ==
    /\ [](game # NoGame /\ game.lastMove # NoMove =>
            /\ game.board[idx(game.lastMove[1], game.lastMove[2])] = game.lastMove[3]
            /\ game.status = "playing" /\ game.passStreak = 0 =>
                   game.turn = opponent(game.lastMove[3])
            /\ game.status = "playing" /\ game.passStreak = 1 =>
                   game.turn = game.lastMove[3])
    /\ [][/\ \A r \in Req :
                Accepted(r, "pass") =>
                    /\ game'.board = req[r].state.board
                    /\ game'.lastMove = req[r].state.lastMove
          /\ \A a \in Ai :
                AiPasses(a) =>
                    /\ game'.board = ai[a].state.board
                    /\ game'.lastMove = ai[a].state.lastMove]_vars

\* A player has moved and the other one has passed: the game goes on with
\* the turn back at the player of the last move.
C40_Witness ==
    /\ game # NoGame /\ game.status = "playing"
    /\ game.lastMove # NoMove /\ game.passStreak = 1
    /\ game.turn = game.lastMove[3]

====
